---- MODULE Spec2Model ----
(***************************************************************************)
(* Model of the whisper-api chat core: direct-chat invitations and rooms   *)
(* (chat/views.py), message validation and storage (chat/serializers.py,   *)
(* chat/consumers.py), room leave, device key sync (accounts/views.py) and *)
(* the WebSocket connection gateway (chat/consumers.py).                   *)
(*                                                                         *)
(* The database is a set of rows per table.  Every ORM statement is one    *)
(* atomic step; a REST request whose handler reads rows and later writes   *)
(* them is a process with a program counter, so that two requests can      *)
(* interleave between the statements exactly where the handler holds no    *)
(* row lock (no select_for_update appears anywhere in chat/views.py).      *)
(***************************************************************************)
EXTENDS Integers, Sequences, FiniteSets, TLC

VARIABLES
    rooms,      \* chat_rooms rows            [id, room_type, created_by]
    members,    \* chat_room_members rows     [room, user, role, joined_at, last_read_at]
    messages,   \* messages rows
    dinv,       \* direct_chat_invitations    [id, inviter, invitee, status, room]
    ginv,       \* group_chat_invitations     [id, room, inviter, invitee, status]
    devices,    \* user_devices rows          [id, user, device_fingerprint, is_primary, last_active]
    nextId,     \* next primary key handed out (uuid4 is modelled as a fresh number)
    now,        \* timezone.now()
    reqs,       \* in-flight REST requests of the direct-chat endpoints
    started,    \* number of requests started so far
    resp,       \* response of the most recent single-step handler
    published,  \* channel_layer.group_send calls made by the most recent handler
    conns       \* WebSocket connections

vars == <<rooms, members, messages, dinv, ginv, devices, nextId, now, reqs, started,
          resp, published, conns>>

\* ---------------------------------------------------------------- bounds
MaxRequests == 4
NumSlots == 2

\* ---------------------------------------------------------------- users
Users == {"A", "B", "C"}
\* users that registered a public key (User.public_key is non-empty)
HasPublicKey == {"A", "B"}
\* a user id that resolves to no row of the users table
Ghost == "Z"
NoId == 0
NoUser == "none"
\* a nullable DateTimeField holding NULL
NoTime == -1
\* Python None / SQL NULL in a text column
Null == "null"

\* ---------------------------------------------------------------- helpers
Max(S) == CHOOSE x \in S : \A y \in S : y <= x

MembersOf(r) == {m \in members : m.room = r}
MemberUsers(r) == {m.user : m \in MembersOf(r)}
IsMember(r, u) == \E m \in members : m.room = r /\ m.user = u

\* Rows of the query of DirectChatCreateView.post:
\*   ChatRoom.objects.filter(room_type='direct', members__user=user)
\*       .filter(members__user=other_user)
\*       .annotate(member_count=Count('members')).filter(member_count=2)
\* Each filter() on the multi-valued relation `members` adds its own join, and
\* an annotate() placed after filter() counts over the joined (filtered) rows,
\* so member_count is the number of pairs (membership of user, membership of
\* other_user) of the room.
JoinRows(r, user, other) ==
    {<<m1, m2>> \in MembersOf(r) \X MembersOf(r) : m1.user = user /\ m2.user = other}

ExistingRooms(user, other) ==
    {r \in rooms : r.room_type = "direct"
                   /\ Cardinality(JoinRows(r.id, user, other)) = 2}

\* .first() under Meta.ordering; NoId when the queryset is empty
ExistingRoom(user, other) ==
    IF ExistingRooms(user, other) = {} THEN NoId
    ELSE Max({r.id : r \in ExistingRooms(user, other)})

\* DirectChatInvitation.objects.filter(Q(inviter=user, invitee=other, pending)
\*                                   | Q(inviter=other, invitee=user, pending))
PendingBetween(user, other) ==
    {i \in dinv : i.status = "pending"
                  /\ \/ (i.inviter = user /\ i.invitee = other)
                     \/ (i.inviter = other /\ i.invitee = user)}

\* .first() with ordering ['-created_at']: the most recently created row
FirstInvitation(S) == CHOOSE i \in S : \A j \in S : j.id <= i.id

\* UniqueConstraint(fields=(inviter, invitee), condition=Q(status='pending'))
UniquePendingViolated(inviter, invitee) ==
    \E i \in dinv : i.inviter = inviter /\ i.invitee = invitee /\ i.status = "pending"

NoInv == [id |-> NoId, inviter |-> NoUser, invitee |-> NoUser, status |-> "none", room |-> NoId]

IdleReq == [op |-> "idle", pc |-> "idle", user |-> NoUser, other |-> NoUser,
            inv |-> NoInv, action |-> "none", status |-> 0, room |-> NoId, rinv |-> NoId]

Slots == 1..NumSlots

NoResp == [op |-> "none", status |-> 0, n |-> 0]

\* ---------------------------------------------------------------- Init
Init ==
    /\ rooms = {}
    /\ members = {}
    /\ messages = {}
    /\ dinv = {}
    /\ ginv = {}
    /\ devices = {}
    /\ nextId = 1
    /\ now = 0
    /\ reqs = [s \in Slots |-> IdleReq]
    /\ started = 0
    /\ resp = NoResp
    /\ published = <<>>
    /\ conns = {}

Others == <<messages, ginv, devices, now, resp, published, conns>>

Free(s) == reqs[s].pc \in {"idle", "done"}

Respond(s, code, roomId, invId) ==
    reqs' = [reqs EXCEPT ![s].pc = "done", ![s].status = code,
                         ![s].room = roomId, ![s].rinv = invId]

\* ------------------------------------------------- DirectChatCreateView.post
\* lines 144-164: request accepted, self-invitation and unknown user rejected
DCStart(s, user, other) ==
    /\ Free(s)
    /\ started < MaxRequests
    /\ started' = started + 1
    /\ IF other = user \/ other \notin Users
       THEN reqs' = [reqs EXCEPT ![s] = [IdleReq EXCEPT !.op = "create", !.pc = "done",
                         !.user = user, !.other = other, !.status = 400]]
       ELSE reqs' = [reqs EXCEPT ![s] = [IdleReq EXCEPT !.op = "create", !.pc = "check_room",
                         !.user = user, !.other = other]]
    /\ UNCHANGED <<rooms, members, dinv, nextId>>
    /\ UNCHANGED Others

\* lines 168-185: look for an existing direct room of the two users
DCCheckRoom(s) ==
    /\ reqs[s].op = "create" /\ reqs[s].pc = "check_room"
    /\ LET existing_room == ExistingRoom(reqs[s].user, reqs[s].other)
       IN IF existing_room # NoId
          THEN Respond(s, 200, existing_room, NoId)
          ELSE reqs' = [reqs EXCEPT ![s].pc = "check_inv"]
    /\ UNCHANGED <<rooms, members, dinv, nextId, started>>
    /\ UNCHANGED Others

\* lines 188-200: look for a pending invitation in either direction
DCCheckInv(s) ==
    /\ reqs[s].op = "create" /\ reqs[s].pc = "check_inv"
    /\ LET pend == PendingBetween(reqs[s].user, reqs[s].other)
       IN IF pend # {}
          THEN LET existing_invitation == FirstInvitation(pend)
               IN IF existing_invitation.inviter = reqs[s].user
                  THEN Respond(s, 200, NoId, existing_invitation.id)
                  ELSE reqs' = [reqs EXCEPT ![s].pc = "accept",
                                            ![s].inv = existing_invitation]
          ELSE reqs' = [reqs EXCEPT ![s].pc = "create_inv"]
    /\ UNCHANGED <<rooms, members, dinv, nextId, started>>
    /\ UNCHANGED Others

\* lines 221-243: _accept_invitation; invitation.save() writes every field of
\* the instance read at check_inv back to the row with that primary key
DCAccept(s) ==
    /\ reqs[s].op = "create" /\ reqs[s].pc = "accept"
    /\ LET invitation == reqs[s].inv
           room == nextId
       IN /\ rooms' = rooms \cup {[id |-> room, room_type |-> "direct",
                                   created_by |-> invitation.inviter]}
          /\ members' = members \cup
                {[room |-> room, user |-> invitation.inviter, role |-> "member", joined_at |-> 1, last_read_at |-> NoTime],
                 [room |-> room, user |-> invitation.invitee, role |-> "member", joined_at |-> 2, last_read_at |-> NoTime]}
          /\ dinv' = {i \in dinv : i.id # invitation.id}
                     \cup {[invitation EXCEPT !.room = room, !.status = "accepted"]}
          /\ nextId' = nextId + 1
          /\ Respond(s, 201, room, NoId)
    /\ UNCHANGED started
    /\ UNCHANGED Others

\* lines 203-219: public-key precondition, then the new pending invitation
DCCreateInv(s) ==
    /\ reqs[s].op = "create" /\ reqs[s].pc = "create_inv"
    /\ IF reqs[s].other \notin HasPublicKey
       THEN /\ Respond(s, 400, NoId, NoId)
            /\ UNCHANGED <<dinv, nextId>>
       ELSE IF UniquePendingViolated(reqs[s].user, reqs[s].other)
       THEN /\ Respond(s, 500, NoId, NoId)
            /\ UNCHANGED <<dinv, nextId>>
       ELSE /\ dinv' = dinv \cup {[id |-> nextId, inviter |-> reqs[s].user,
                                   invitee |-> reqs[s].other, status |-> "pending",
                                   room |-> NoId]}
            /\ nextId' = nextId + 1
            /\ Respond(s, 201, NoId, nextId)
    /\ UNCHANGED <<rooms, members, started>>
    /\ UNCHANGED Others

\* an invitation lookup that does not filter on the invitee
FetchPendingAnyUser(invs, invitation_id, user) ==
    {i \in invs : i.id = invitation_id /\ i.status = "pending"}

\* objects.get(id=invitation_id, invitee=user, status='pending') of both
\* response views: the matching rows, {} for DoesNotExist
FetchPending(invs, invitation_id, user) ==
    {i \in invs : i.id = invitation_id /\ i.invitee = user /\ i.status = "pending"}

\* -------------------------------------- DirectChatInvitationResponseView.post
\* lines 1366-1382: fetch the invitation addressed to the caller while pending
DRFetch(s, user, invitation_id, action) ==
    /\ Free(s)
    /\ started < MaxRequests
    /\ started' = started + 1
    /\ LET found == FetchPending(dinv, invitation_id, user)
       IN IF found = {}
          THEN reqs' = [reqs EXCEPT ![s] = [IdleReq EXCEPT !.op = "respond", !.pc = "done",
                            !.user = user, !.action = action, !.status = 404]]
          ELSE reqs' = [reqs EXCEPT ![s] = [IdleReq EXCEPT !.op = "respond", !.pc = "act",
                            !.user = user, !.action = action,
                            !.inv = CHOOSE i \in found : TRUE]]
    /\ UNCHANGED <<rooms, members, dinv, nextId>>
    /\ UNCHANGED Others

\* lines 1384-1414: accept creates the room and both memberships, reject only
\* updates the status; both save the instance fetched earlier
DRAct(s) ==
    /\ reqs[s].op = "respond" /\ reqs[s].pc = "act"
    /\ LET invitation == reqs[s].inv
           room == nextId
       IN IF reqs[s].action = "accept"
          THEN /\ dinv' = {i \in dinv : i.id # invitation.id}
                          \cup {[invitation EXCEPT !.status = "accepted"]}
               /\ rooms' = rooms \cup {[id |-> room, room_type |-> "direct",
                                        created_by |-> invitation.inviter]}
               /\ members' = members \cup
                     {[room |-> room, user |-> invitation.inviter, role |-> "member", joined_at |-> 1, last_read_at |-> NoTime],
                      [room |-> room, user |-> invitation.invitee, role |-> "member", joined_at |-> 2, last_read_at |-> NoTime]}
               /\ nextId' = nextId + 1
               /\ Respond(s, 201, room, NoId)
          ELSE /\ dinv' = {i \in dinv : i.id # invitation.id}
                          \cup {[invitation EXCEPT !.status = "rejected"]}
               /\ Respond(s, 200, NoId, invitation.id)
               /\ UNCHANGED <<rooms, members, nextId>>
    /\ UNCHANGED started
    /\ UNCHANGED Others

Next ==
    \/ \E s \in Slots, user \in Users, other \in Users \cup {Ghost} : DCStart(s, user, other)
    \/ \E s \in Slots : DCCheckRoom(s)
    \/ \E s \in Slots : DCCheckInv(s)
    \/ \E s \in Slots : DCAccept(s)
    \/ \E s \in Slots : DCCreateInv(s)
    \/ \E s \in Slots, user \in Users, i \in 1..(nextId - 1), action \in {"accept", "reject"} :
          DRFetch(s, user, i, action)
    \/ \E s \in Slots : DRAct(s)

Spec == Init /\ [][Next]_vars

\* ---------------------------------------------------- direct-chat properties
\* direct rooms of table R whose member set (in table M) is exactly {u, o}
PairRooms(R, M, u, o) ==
    {r \in R : r.room_type = "direct"
               /\ {m.user : m \in {x \in M : x.room = r.id}} = {u, o}}

AcceptedBetween(D, u, o) ==
    {i \in D : i.status = "accepted" /\ {i.inviter, i.invitee} = {u, o}}

Quiescent == \A s \in Slots : Free(s)

\* C1: under any interleaving of direct-chat-create and accept requests of two
\* users there is never more than one direct room of the pair, and once all
\* requests completed and an invitation of the pair was accepted (none is
\* pending) there is exactly one.
C1_ExactlyOneRoomPerPair ==
    \A u \in Users : \A o \in Users \ {u} :
        /\ Cardinality(PairRooms(rooms, members, u, o)) <= 1
        /\ (Quiescent /\ PendingBetween(u, o) = {} /\ AcceptedBetween(dinv, u, o) # {})
              => Cardinality(PairRooms(rooms, members, u, o)) = 1

\* C2: when direct-chat-create finds the other user's pending invitation it
\* auto-accepts it: the call returns 201 with a new direct room of exactly the
\* two users, no invitation row is added, exactly one invitation of the pair is
\* accepted and exactly one room of the pair exists.
C2_AutoAcceptYieldsTheOnlyRoom ==
    [][\A s \in Slots :
         (reqs[s].pc = "accept" /\ reqs'[s].pc = "done") =>
            LET u == reqs[s].user
                o == reqs[s].other
            IN /\ reqs'[s].status = 201
               /\ reqs'[s].room \notin {r.id : r \in rooms}
               /\ \E r \in PairRooms(rooms', members', u, o) : r.id = reqs'[s].room
               /\ {i.id : i \in dinv'} = {i.id : i \in dinv}
               /\ Cardinality(AcceptedBetween(dinv', u, o)) = 1
               /\ Cardinality(PairRooms(rooms', members', u, o)) = 1]_vars

\* C3: direct-chat-create called by either of two users who already share a
\* direct room of exactly the two of them returns 200 with that room's id and
\* creates no room, membership or invitation.
C3_CreateIsIdempotentOnExistingRoom ==
    [][\A s \in Slots :
         (reqs[s].pc = "check_room" /\ reqs'[s].pc # "check_room"
          /\ PairRooms(rooms, members, reqs[s].user, reqs[s].other) # {}) =>
            /\ reqs'[s].pc = "done"
            /\ reqs'[s].status = 200
            /\ \E r \in PairRooms(rooms, members, reqs[s].user, reqs[s].other) :
                  r.id = reqs'[s].room
            /\ rooms' = rooms /\ members' = members /\ dinv' = dinv]_vars

\* =========================================================================
\* Messages: the live connection's chat_message event, the REST message
\* endpoints, mark-read and leave, over one direct and one group room.
\* =========================================================================
MaxMessages == 2
MaxTime == 2

DirectRoomId == 1
GroupRoomId == 2
\* a room id that resolves to no row
MissingRoomId == 9
FirstMessageId == 3


\* the JSON body of a chat_message event / of POST .../messages/
Payload(t, c, ec, esk, sesk, r) ==
    [message_type |-> t, content |-> c, encrypted_content |-> ec,
     encrypted_session_key |-> esk, self_encrypted_session_key |-> sesk,
     reply_to |-> r]

\* the bodies a client is modelled to send: plaintext, envelope, hybrid
\* envelope, each encrypted field alone or next to plaintext, empty bodies,
\* attachments, and replies
Payloads ==
    {Payload("text", "hi", Null, Null, Null, NoId),
     Payload("text", "", "c1", Null, Null, NoId),
     Payload("text", "", "c1", "k1", "s1", NoId),
     Payload("text", "hi", Null, "k1", Null, NoId),
     Payload("text", "hi", Null, Null, "s1", NoId),
     Payload("text", "hi", "c1", Null, Null, NoId),
     Payload("text", "", Null, Null, Null, NoId),
     Payload("text", "", "", Null, Null, NoId),
     Payload("image", "", Null, Null, Null, NoId),
     Payload("image", "", "c1", Null, Null, NoId),
     Payload("file", "", Null, "k1", Null, NoId),
     Payload("file", "", Null, Null, "s1", NoId),
     Payload("text", "hi", Null, Null, Null, FirstMessageId),
     Payload("text", "", "c1", Null, Null, FirstMessageId)}

\* Python truthiness of an optional string
Truthy(x) == x # Null /\ x # ""

ChatGroup(r) == [kind |-> "chat", room |-> r, user |-> NoUser]
NotificationGroup(u) == [kind |-> "notifications", room |-> NoId, user |-> u]

\* one channel_layer.group_send call
Event(group, type, msg) == [group |-> group, type |-> type, msg |-> msg]

RoomOf(r) == CHOOSE x \in rooms : x.id = r
RoomExists(r) == \E x \in rooms : x.id = r
RoomType(r) == IF RoomExists(r) THEN RoomOf(r).room_type ELSE "none"
MemberOf(r, u) == CHOOSE m \in members : m.room = r /\ m.user = u

Resp(op, user, status, n) == [op |-> op, status |-> status, n |-> n]

\* an accepted chat connection of `user` joined to the group of `room`
OpenChatConn(room, user) ==
    [kind |-> "chat", state |-> "open", room_id |-> room, user |-> user,
     has_user |-> TRUE, close_code |-> 0, groups |-> {ChatGroup(room)}]

MsgConns == 1..4

\* the envelope rules without the test of self_encrypted_session_key
ConsumerEnvelopeOkNoSelfKey(room_type, p) ==
    /\ ~(room_type = "direct" /\ ~Truthy(p.encrypted_content) /\ p.message_type = "text")
    /\ ~(room_type = "group" /\ Truthy(p.encrypted_content))
    /\ ~(room_type = "group" /\ Truthy(p.encrypted_session_key))

\* ChatConsumer.create_message lines 453-466: envelope rules of the live path
ConsumerEnvelopeOk(room_type, p) ==
    /\ ~(room_type = "direct" /\ ~Truthy(p.encrypted_content) /\ p.message_type = "text")
    /\ ~(room_type = "group" /\ Truthy(p.encrypted_content))
    /\ ~(room_type = "group" /\ Truthy(p.encrypted_session_key))
    /\ ~(room_type = "group" /\ Truthy(p.self_encrypted_session_key))

\* MessageCreateSerializer.validate: "ok" or the key of the ValidationError;
\* room_type is "none" when the serializer context carries no room
SerializerValidate(room_type, p) ==
    IF room_type = "none" THEN "ok"
    ELSE IF room_type = "direct"
    THEN IF ~Truthy(p.encrypted_content) THEN "encrypted_content" ELSE "ok"
    ELSE IF Truthy(p.encrypted_content) THEN "encrypted_content"
    ELSE IF Truthy(p.encrypted_session_key) THEN "encrypted_session_key"
    ELSE IF Truthy(p.self_encrypted_session_key) THEN "self_encrypted_session_key"
    ELSE IF ~Truthy(p.content) THEN "content"
    ELSE "ok"

\* MessageCreateSerializer.create: "ok" or the key of the ValidationError
SerializerCreate(room, sender, p) ==
    IF room = NoId THEN "room"
    ELSE IF ~IsMember(room, sender) THEN "room"
    ELSE IF p.reply_to # NoId
            /\ ~\E m \in messages : m.id = p.reply_to /\ m.room = room
    THEN "reply_to_id"
    ELSE "ok"

\* the room the view hands to MessageCreateSerializer through its context:
\* MessageListView.post passes context={'request': request} only
ViewContextRoom(room_id) == NoId

\* the tables once the direct room of A and B and the group room of A, B
\* and C exist
InitStore(roles) ==
    /\ rooms = {[id |-> DirectRoomId, room_type |-> "direct", created_by |-> "A"],
                [id |-> GroupRoomId, room_type |-> "group", created_by |-> "A"]}
    /\ \E rb \in roles, rc \in roles :
         members =
           {[room |-> DirectRoomId, user |-> "A", role |-> "member", joined_at |-> 1, last_read_at |-> NoTime],
            [room |-> DirectRoomId, user |-> "B", role |-> "member", joined_at |-> 2, last_read_at |-> NoTime],
            [room |-> GroupRoomId, user |-> "A", role |-> "owner", joined_at |-> 1, last_read_at |-> NoTime],
            [room |-> GroupRoomId, user |-> "B", role |-> rb, joined_at |-> 2, last_read_at |-> NoTime],
            [room |-> GroupRoomId, user |-> "C", role |-> rc, joined_at |-> 3, last_read_at |-> NoTime]}
    /\ messages = {}
    /\ dinv = {}
    /\ ginv = {}
    /\ devices = {}
    /\ nextId = FirstMessageId
    /\ now = 0
    /\ reqs = [s \in Slots |-> IdleReq]
    /\ started = 0
    /\ resp = NoResp
    /\ published = <<>>

\* ... with A and B connected to both rooms
InitRooms(roles) ==
    /\ InitStore(roles)
    /\ conns = [c \in MsgConns |->
                  IF c = 1 THEN OpenChatConn(DirectRoomId, "A")
                  ELSE IF c = 2 THEN OpenChatConn(DirectRoomId, "B")
                  ELSE IF c = 3 THEN OpenChatConn(GroupRoomId, "A")
                  ELSE OpenChatConn(GroupRoomId, "B")]

\* both rooms exist, the group room has one owner and two plain members
InitMsg == InitRooms({"member"})

\* the group room's other members hold any mix of the roles admin and member
InitLeave == InitRooms({"admin", "member"})

MsgFrame == <<dinv, ginv, devices, reqs, started, conns>>

\* a field the client left out of the request body, a key left out of a payload
Absent == "absent"

NotifyNobody(ms, message) == <<>>

\* ChatConsumer.send_global_notification lines 300-311: data_payload['content'];
\* "[new message]", "[photo]" and "[file]" stand for the three fixed strings
\* of the code, Absent for a payload without the key
Preview(message) ==
    IF message.message_type = "text"
    THEN IF Truthy(message.content) THEN message.content
         ELSE IF Truthy(message.encrypted_content) THEN "[new message]"
         ELSE Absent
    ELSE IF message.message_type = "image" THEN "[photo]"
    ELSE IF message.message_type = "file" THEN "[file]"
    ELSE Absent

\* ChatConsumer.send_global_notification: one notification per other member
\* (get_room_members, most recently joined first)
RECURSIVE NotifyAll(_, _)
NotifyAll(ms, message) ==
    IF ms = {} THEN <<>>
    ELSE LET m == CHOOSE x \in ms : \A y \in ms : y.joined_at <= x.joined_at
         IN <<[group |-> NotificationGroup(m.user), type |-> "notification",
               msg |-> message.id, content |-> Preview(message)]>>
            \o NotifyAll(ms \ {m}, message)

\* ChatConsumer.handle_chat_message with create_message: validate, store,
\* publish on the room group, then notify every other member; a failed
\* creation only sends an error frame to the caller's own socket
WsChatMessage(c, p) ==
    /\ conns[c].kind = "chat" /\ conns[c].state = "open"
    /\ nextId - FirstMessageId < MaxMessages
    /\ LET room == conns[c].room_id
           user == conns[c].user
           reply_to == IF p.reply_to # NoId
                          /\ \E m \in messages : m.id = p.reply_to /\ m.room = room
                       THEN p.reply_to ELSE NoId
           message == [id |-> nextId, room |-> room, sender |-> user,
                       message_type |-> p.message_type,
                       content |-> IF Truthy(p.content) THEN p.content ELSE Null,
                       encrypted_content |-> p.encrypted_content,
                       encrypted_session_key |-> p.encrypted_session_key,
                       self_encrypted_session_key |-> p.self_encrypted_session_key,
                       reply_to |-> reply_to, is_read |-> FALSE, created_at |-> now]
       IN IF RoomExists(room) /\ ConsumerEnvelopeOk(RoomType(room), p)
          THEN /\ messages' = messages \cup {message}
               /\ nextId' = nextId + 1
               /\ published' = <<Event(ChatGroup(room), "chat_message", nextId)>>
                     \o NotifyAll({m \in MembersOf(room) : m.user # user}, message)
               /\ resp' = Resp("ws_chat_message", user, 0, nextId)
          ELSE /\ UNCHANGED <<messages, nextId>>
               /\ published' = <<>>
               /\ resp' = Resp("ws_chat_message", user, -1, NoId)
    /\ UNCHANGED <<rooms, members, now>>
    /\ UNCHANGED MsgFrame

\* MessageListView.post: 404, 403, then MessageCreateSerializer
\* is_valid() and save(); every ValidationError is a 400
RestSendMessage(user, room_id, p) ==
    /\ nextId - FirstMessageId < MaxMessages
    /\ published' = <<>>
    /\ IF ~RoomExists(room_id)
       THEN /\ resp' = Resp("send_message", user, 404, NoId)
            /\ UNCHANGED <<messages, nextId>>
       ELSE IF ~IsMember(room_id, user)
       THEN /\ resp' = Resp("send_message", user, 403, NoId)
            /\ UNCHANGED <<messages, nextId>>
       ELSE LET room == ViewContextRoom(room_id)
                room_type == IF room = NoId THEN "none" ELSE RoomType(room)
            IN IF SerializerValidate(room_type, p) # "ok"
                  \/ SerializerCreate(room, user, p) # "ok"
               THEN /\ resp' = Resp("send_message", user, 400, NoId)
                    /\ UNCHANGED <<messages, nextId>>
               ELSE /\ messages' = messages \cup
                          {[id |-> nextId, room |-> room, sender |-> user,
                            message_type |-> p.message_type,
                            content |-> p.content,
                            encrypted_content |-> p.encrypted_content,
                            encrypted_session_key |-> p.encrypted_session_key,
                            self_encrypted_session_key |-> p.self_encrypted_session_key,
                            reply_to |-> p.reply_to, is_read |-> FALSE, created_at |-> now]}
                    /\ nextId' = nextId + 1
                    /\ resp' = Resp("send_message", user, 201, nextId)
    /\ UNCHANGED <<rooms, members, now>>
    /\ UNCHANGED MsgFrame


\* the JSON body of PATCH .../messages/<id>/
EditPayload(c, ec, esk, sesk) ==
    [content |-> c, encrypted_content |-> ec,
     encrypted_session_key |-> esk, self_encrypted_session_key |-> sesk]

EditPayloads ==
    {EditPayload("yo", Absent, Absent, Absent),
     EditPayload(Absent, "c2", Absent, Absent),
     EditPayload(Absent, "c2", "k2", "s2"),
     EditPayload("yo", "c2", Absent, Absent),
     EditPayload("yo", Absent, "k2", Absent),
     EditPayload(Absent, Absent, Absent, Absent)}

\* validated_data.get(field): None when the field is absent
Get(x) == IF x = Absent THEN Null ELSE x

\* MessageUpdateSerializer.validate
UpdateSerializerValid(e) ==
    ~(~Truthy(Get(e.content)) /\ ~Truthy(Get(e.encrypted_content)))

\* on_delete=SET_NULL of Message.reply_to when message `mid` is deleted
ClearReplies(ms, mid) ==
    {IF m.reply_to = mid THEN [m EXCEPT !.reply_to = NoId] ELSE m : m \in ms}

\* the ownership test of MessageDetailView.patch and .delete
\* (message.sender != request.user rejects)
IsSenderAlways(message, user) == TRUE

IsSender(message, user) == message.sender = user

\* MessageDetailView.patch
RestEditMessage(user, room_id, message_id, e) ==
    LET found == {m \in messages : m.id = message_id /\ m.room = room_id}
    IN IF found = {}
       THEN /\ resp' = Resp("edit_message", user, 404, message_id)
            /\ published' = <<>>
            /\ UNCHANGED messages
       ELSE LET message == CHOOSE m \in found : TRUE
            IN IF ~IsSender(message, user)
               THEN /\ resp' = Resp("edit_message", user, 403, message_id)
                    /\ published' = <<>>
                    /\ UNCHANGED messages
               ELSE IF message.message_type # "text"
               THEN /\ resp' = Resp("edit_message", user, 400, message_id)
                    /\ published' = <<>>
                    /\ UNCHANGED messages
               ELSE IF ~UpdateSerializerValid(e)
               THEN /\ resp' = Resp("edit_message", user, 400, message_id)
                    /\ published' = <<>>
                    /\ UNCHANGED messages
               ELSE IF RoomType(room_id) = "direct"
               THEN IF ~Truthy(Get(e.encrypted_content))
                    THEN /\ resp' = Resp("edit_message", user, 400, message_id)
                         /\ published' = <<>>
                         /\ UNCHANGED messages
                    ELSE /\ messages' = (messages \ {message}) \cup
                              {[message EXCEPT
                                  !.encrypted_content = e.encrypted_content,
                                  !.encrypted_session_key =
                                      IF e.encrypted_session_key # Absent
                                      THEN e.encrypted_session_key ELSE @,
                                  !.self_encrypted_session_key =
                                      IF e.self_encrypted_session_key # Absent
                                      THEN e.self_encrypted_session_key ELSE @]}
                         /\ published' = <<Event(ChatGroup(room_id), "message_update", message_id)>>
                         /\ resp' = Resp("edit_message", user, 200, message_id)
               ELSE IF ~Truthy(Get(e.content))
                    THEN /\ resp' = Resp("edit_message", user, 400, message_id)
                         /\ published' = <<>>
                         /\ UNCHANGED messages
                    ELSE /\ messages' = (messages \ {message}) \cup
                              {[message EXCEPT !.content = e.content]}
                         /\ published' = <<Event(ChatGroup(room_id), "message_update", message_id)>>
                         /\ resp' = Resp("edit_message", user, 200, message_id)

RestEdit(user, room_id, message_id, e) ==
    /\ RestEditMessage(user, room_id, message_id, e)
    /\ UNCHANGED <<rooms, members, nextId, now>>
    /\ UNCHANGED MsgFrame

\* MessageDetailView.delete: the event is sent before the row is deleted
RestDeleteMessage(user, room_id, message_id) ==
    LET found == {m \in messages : m.id = message_id /\ m.room = room_id}
    IN IF found = {}
       THEN /\ resp' = Resp("delete_message", user, 404, message_id)
            /\ published' = <<>>
            /\ UNCHANGED messages
       ELSE LET message == CHOOSE m \in found : TRUE
            IN IF ~IsSender(message, user)
               THEN /\ resp' = Resp("delete_message", user, 403, message_id)
                    /\ published' = <<>>
                    /\ UNCHANGED messages
               ELSE /\ published' = <<Event(ChatGroup(room_id), "message_delete", message_id)>>
                    /\ messages' = ClearReplies(messages \ {message}, message_id)
                    /\ resp' = Resp("delete_message", user, 204, message_id)

RestDelete(user, room_id, message_id) ==
    /\ RestDeleteMessage(user, room_id, message_id)
    /\ UNCHANGED <<rooms, members, nextId, now>>
    /\ UNCHANGED MsgFrame

\* a read update that does not exclude the reader's own messages
ReadTargetsAnySender(room_id, user, message_ids) ==
    {m \in messages : m.id \in message_ids /\ m.room = room_id}

\* the rows MessageReadView.post updates:
\* Message.objects.filter(id__in=message_ids, room=room).exclude(sender=user)
ReadTargets(room_id, user, message_ids) ==
    {m \in messages : m.id \in message_ids /\ m.room = room_id /\ m.sender # user}

\* MessageReadView.post
RestMarkRead(user, room_id, message_ids) ==
    /\ IF ~RoomExists(room_id)
       THEN /\ resp' = Resp("mark_read", user, 404, 0)
            /\ published' = <<>>
            /\ UNCHANGED <<messages, members>>
       ELSE IF ~IsMember(room_id, user)
       THEN /\ resp' = Resp("mark_read", user, 403, 0)
            /\ published' = <<>>
            /\ UNCHANGED <<messages, members>>
       ELSE IF message_ids = {}
       THEN /\ resp' = Resp("mark_read", user, 400, 0)
            /\ published' = <<>>
            /\ UNCHANGED <<messages, members>>
       ELSE LET targets == ReadTargets(room_id, user, message_ids)
                read_count == Cardinality(targets)
            IN /\ messages' = (messages \ targets)
                                 \cup {[m EXCEPT !.is_read = TRUE] : m \in targets}
               /\ members' = {IF m.room = room_id /\ m.user = user
                              THEN [m EXCEPT !.last_read_at = now] ELSE m : m \in members}
               /\ published' = IF read_count > 0
                               THEN <<Event(ChatGroup(room_id), "read_receipt", NoId)>>
                               ELSE <<>>
               /\ resp' = Resp("mark_read", user, 200, read_count)
    /\ UNCHANGED <<rooms, nextId, now>>
    /\ UNCHANGED MsgFrame

\* ChatConsumer.handle_read_receipt with mark_messages_as_read: a frame
\* without message_ids does nothing; otherwise the rows are updated (a
\* missing room raises inside mark_messages_as_read, which swallows it) and
\* the receipt is published on the room group either way
WsReadReceipt(c, message_ids) ==
    /\ conns[c].kind = "chat" /\ conns[c].state = "open"
    /\ LET room_id == conns[c].room_id
           user == conns[c].user
           targets == ReadTargets(room_id, user, message_ids)
       IN IF message_ids = {}
          THEN /\ published' = <<>>
               /\ UNCHANGED <<messages, members>>
          ELSE /\ published' = <<Event(ChatGroup(room_id), "read_receipt", NoId)>>
               /\ IF RoomExists(room_id)
                  THEN /\ messages' = (messages \ targets)
                                 \cup {[m EXCEPT !.is_read = TRUE] : m \in targets}
                       /\ members' = {IF m.room = room_id /\ m.user = user
                                      THEN [m EXCEPT !.last_read_at = now]
                                      ELSE m : m \in members}
                  ELSE UNCHANGED <<messages, members>>
    /\ resp' = Resp("ws_read_receipt", conns[c].user, 0, 0)
    /\ UNCHANGED <<rooms, nextId, now>>
    /\ UNCHANGED MsgFrame

\* unread count that also counts messages stamped exactly at last_read_at
UnreadCountInclusive(room_id, user) ==
    IF ~IsMember(room_id, user) \/ MemberOf(room_id, user).last_read_at = NoTime
    THEN Cardinality({m \in messages : m.room = room_id /\ m.sender # user})
    ELSE Cardinality({m \in messages : m.room = room_id /\ m.sender # user
                         /\ m.created_at >= MemberOf(room_id, user).last_read_at})

\* ChatRoomSerializer.get_unread_count for request.user = user
UnreadCount(room_id, user) ==
    IF ~IsMember(room_id, user) \/ MemberOf(room_id, user).last_read_at = NoTime
    THEN Cardinality({m \in messages : m.room = room_id /\ m.sender # user})
    ELSE Cardinality({m \in messages : m.room = room_id /\ m.sender # user
                         /\ m.created_at > MemberOf(room_id, user).last_read_at})

\* QuerySet.first() on ChatRoomMember (Meta.ordering = ['-joined_at'])
FirstMember(ms) == CHOOSE x \in ms : \A y \in ms : y.joined_at <= x.joined_at

\* a room deletion whose messages do not cascade
DeleteRoomKeepMessages(room_id) ==
    /\ rooms' = {r \in rooms : r.id # room_id}
    /\ members' = {m \in members : m.room # room_id}
    /\ messages' = messages
    /\ ginv' = {i \in ginv : i.room # room_id}

\* room.delete(): members, messages and invitations of the room cascade
DeleteRoom(room_id) ==
    /\ rooms' = {r \in rooms : r.id # room_id}
    /\ members' = {m \in members : m.room # room_id}
    /\ messages' = {m \in messages : m.room # room_id}
    /\ ginv' = {i \in ginv : i.room # room_id}

\* an ownership transfer that does not look for an admin first
NewOwnerAnyMember(room_id, user) ==
    LET others == {m \in MembersOf(room_id) : m.user # user}
    IN IF others # {} THEN {FirstMember(others)} ELSE {}

\* the owner branch of ChatRoomLeaveView.post (lines 735-759): the membership
\* that becomes owner, or {} when the leaver is the last member
NewOwner(room_id, user) ==
    LET admins == {m \in MembersOf(room_id) : m.role = "admin" /\ m.user # user}
        others == {m \in MembersOf(room_id) : m.user # user}
    IN IF admins # {} THEN {FirstMember(admins)}
       ELSE IF others # {} THEN {FirstMember(others)}
       ELSE {}

\* ChatRoomLeaveView.post
LeaveRoom(user, room_id) ==
    /\ published' = <<>>
    /\ IF ~RoomExists(room_id)
       THEN /\ resp' = Resp("leave", user, 404, room_id)
            /\ UNCHANGED <<rooms, members, messages, ginv>>
       ELSE IF ~IsMember(room_id, user)
       THEN /\ resp' = Resp("leave", user, 403, room_id)
            /\ UNCHANGED <<rooms, members, messages, ginv>>
       ELSE IF RoomType(room_id) = "direct"
       THEN /\ DeleteRoom(room_id)
            /\ resp' = Resp("leave", user, 200, room_id)
       ELSE LET member == MemberOf(room_id, user)
                promoted == IF member.role = "owner" THEN NewOwner(room_id, user) ELSE {}
            IN IF member.role = "owner" /\ promoted = {}
               THEN /\ DeleteRoom(room_id)
                    /\ resp' = Resp("leave", user, 200, room_id)
               ELSE /\ members' = (members \ ({member} \cup promoted))
                                     \cup {[m EXCEPT !.role = "owner"] : m \in promoted}
                    /\ resp' = Resp("leave", user, 200, room_id)
                    /\ UNCHANGED <<rooms, messages, ginv>>
    /\ UNCHANGED <<nextId, now>>
    /\ UNCHANGED <<dinv, devices, reqs, started, conns>>

\* ChatRoomDetailView.get: status code only
RoomDetailStatus(user, room_id) ==
    IF ~RoomExists(room_id) THEN 404
    ELSE IF ~IsMember(room_id, user) THEN 403
    ELSE 200

\* MessageListView.get: status code only
MessageListStatus(user, room_id) ==
    IF ~RoomExists(room_id) THEN 404
    ELSE IF ~IsMember(room_id, user) THEN 403
    ELSE 200

\* the wall clock moves between requests
Tick ==
    /\ now < MaxTime
    /\ now' = now + 1
    /\ UNCHANGED <<rooms, members, messages, nextId, resp, published>>
    /\ UNCHANGED MsgFrame

RoomIds == {DirectRoomId, GroupRoomId, MissingRoomId}
MessageIds == FirstMessageId..(FirstMessageId + MaxMessages - 1)

\* ---- sending messages over both creation paths
RestPayloads == {Payload("text", "hi", Null, Null, Null, NoId),
                 Payload("text", "", "c1", Null, Null, NoId),
                 Payload("text", "", "c1", "k1", "s1", NoId),
                 Payload("image", "", Null, Null, Null, NoId),
                 Payload("file", "", Null, "k1", Null, NoId),
                 Payload("text", "hi", Null, Null, Null, FirstMessageId)}

NextMsg ==
    \/ \E c \in MsgConns, p \in Payloads : WsChatMessage(c, p)
    \/ \E user \in Users, room_id \in RoomIds, p \in RestPayloads :
          RestSendMessage(user, room_id, p)

SpecMsg == InitMsg /\ [][NextMsg]_vars

\* ---- editing and deleting stored messages
EditSendPayloads == {Payload("text", "", "c1", Null, Null, NoId),
                     Payload("text", "hi", Null, Null, Null, NoId),
                     Payload("image", "", Null, Null, Null, NoId)}


NextEdit ==
    \/ \E c \in {1, 4}, p \in EditSendPayloads : WsChatMessage(c, p)
    \/ \E user \in Users, room_id \in RoomIds, message_id \in MessageIds, e \in EditPayloads :
          RestEdit(user, room_id, message_id, e)
    \/ \E user \in Users, room_id \in RoomIds, message_id \in MessageIds :
          RestDelete(user, room_id, message_id)

SpecEdit == InitMsg /\ [][NextEdit]_vars

\* ---- read state of the direct room: its two members send over their
\* connections, any user marks messages read, time passes

\* message_ids of a mark-read request: none, the first message, all
ReadIdSets == {{}, {FirstMessageId}, MessageIds}

NextRead ==
    \/ \E c \in {1, 2}, p \in {Payload("text", "", "c1", Null, Null, NoId)} : WsChatMessage(c, p)
    \/ \E user \in Users, room_id \in {DirectRoomId, MissingRoomId},
          message_ids \in ReadIdSets :
          RestMarkRead(user, room_id, message_ids)
    \/ Tick

SpecRead == InitMsg /\ [][NextRead]_vars

\* ---- marking messages read over both paths and in both rooms: A sends in
\* the direct room and B in the group room, B marks read over REST and
\* sends read receipts on the direct room's connection, time passes
MarkPayloads == {Payload("text", "", "c1", Null, Null, NoId),
                 Payload("text", "hi", Null, Null, Null, NoId)}

NextMark ==
    \/ \E c \in {1, 4}, p \in MarkPayloads : WsChatMessage(c, p)
    \/ \E user \in {"B"}, room_id \in {DirectRoomId, GroupRoomId}, message_ids \in ReadIdSets :
          RestMarkRead(user, room_id, message_ids)
    \/ \E c \in {2}, message_ids \in ReadIdSets : WsReadReceipt(c, message_ids)
    \/ Tick

SpecMark == InitMsg /\ [][NextMark]_vars

\* ---- listing the messages of a room page by page
\* the sequences order_by('-created_at') can return for the rows of a room:
\* every arrangement with created_at descending; the query names no second
\* key and the primary key is a random UUID, so rows with equal created_at
\* come in whatever order the database picks for that query
Orderings(room_id) ==
    LET rows == {m \in messages : m.room = room_id}
        n == Cardinality(rows)
    IN {s \in [1..n -> rows] :
          /\ \A i, j \in 1..n : i # j => s[i] # s[j]
          /\ \A i, j \in 1..n : i < j => s[i].created_at >= s[j].created_at}

\* queryset[offset:offset + page_size]
Slice(s, offset, page_size) ==
    SubSeq(s, offset + 1, IF offset + page_size < Len(s) THEN offset + page_size ELSE Len(s))

\* list(reversed(messages))
Reversed(s) == [i \in 1..Len(s) |-> s[Len(s) + 1 - i]]

\* MessageListView.get
MessageList(user, room_id, page, page_size) ==
    /\ IF ~RoomExists(room_id)
       THEN resp' = Resp("list", user, 404, 0)
       ELSE IF ~IsMember(room_id, user)
       THEN resp' = Resp("list", user, 403, 0)
       ELSE LET offset == (page - 1) * page_size
                total == Cardinality({m \in messages : m.room = room_id})
            IN \E ord \in Orderings(room_id) :
                 resp' = [op |-> "list", status |-> 200, n |-> total,
                          room |-> room_id, page |-> page, page_size |-> page_size,
                          results |-> Reversed(Slice(ord, offset, page_size)),
                          has_next |-> (page * page_size) < total]
    /\ published' = <<>>
    /\ UNCHANGED <<rooms, members, messages, nextId, now>>
    /\ UNCHANGED MsgFrame

NextList ==
    \/ \E c \in {1, 2}, p \in {Payload("text", "", "c1", Null, Null, NoId)} : WsChatMessage(c, p)
    \/ \E user \in {"A", "C"}, room_id \in {DirectRoomId, MissingRoomId},
          page \in 1..3, page_size \in 1..2 :
          MessageList(user, room_id, page, page_size)
    \/ Tick

SpecList == InitMsg /\ [][NextList]_vars

\* ---- leaving rooms that hold messages
LeavePayloads == {Payload("text", "", "c1", Null, Null, NoId),
                  Payload("text", "hi", Null, Null, Null, NoId)}

NextLeave ==
    \/ \E c \in MsgConns, p \in LeavePayloads : WsChatMessage(c, p)
    \/ \E user \in Users, room_id \in RoomIds : LeaveRoom(user, room_id)

SpecLeave == InitLeave /\ [][NextLeave]_vars

\* =========================================================================
\* Devices: registration, login on a device, fetching a device's encrypted
\* private key.  The clock of this part counts hours.
\* =========================================================================
MaxHours == 26

\* timedelta(hours=24)
KeyAccessHours == 24

\* the devices A and B registered when they signed up
PrimaryDeviceA == 1
PrimaryDeviceB == 2
FirstRegisteredDeviceId == 3
\* a device id that resolves to no row
UnknownDeviceId == 9

Fingerprints == {"fa", "fb", "f1"}

InitDevice ==
    /\ rooms = {}
    /\ members = {}
    /\ messages = {}
    /\ dinv = {}
    /\ ginv = {}
    /\ devices = {[id |-> PrimaryDeviceA, user |-> "A", device_fingerprint |-> "fa",
                   is_primary |-> TRUE, last_active |-> 0],
                  [id |-> PrimaryDeviceB, user |-> "B", device_fingerprint |-> "fb",
                   is_primary |-> TRUE, last_active |-> 0]}
    /\ nextId = FirstRegisteredDeviceId
    /\ now = 0
    /\ reqs = [s \in Slots |-> IdleReq]
    /\ started = 0
    /\ resp = NoResp
    /\ published = <<>>
    /\ conns = <<>>

DeviceFrame == <<rooms, members, messages, dinv, ginv, reqs, started, published, conns>>

\* UserDevice.objects.get(id=device_id, user=request.user)
OwnDevices(user, device_id) == {d \in devices : d.id = device_id /\ d.user = user}

\* DeviceListView.post with UserDeviceCreateSerializer: the fingerprint is
\* unique over all users; the new row is not primary and is active now
DeviceRegister(user, device_fingerprint) ==
    /\ IF \E d \in devices : d.device_fingerprint = device_fingerprint
       THEN /\ resp' = Resp("register_device", user, 400, NoId)
            /\ UNCHANGED <<devices, nextId>>
       ELSE /\ devices' = devices \cup
                  {[id |-> nextId, user |-> user, device_fingerprint |-> device_fingerprint,
                    is_primary |-> FALSE, last_active |-> now]}
            /\ nextId' = nextId + 1
            /\ resp' = Resp("register_device", user, 201, nextId)
    /\ UNCHANGED now
    /\ UNCHANGED DeviceFrame

\* DeviceDetailView.delete: 404 unless the device is the caller's, then the
\* row is deleted; no other device is touched
DeviceDelete(user, device_id) ==
    /\ IF ~\E d \in devices : d.id = device_id /\ d.user = user
       THEN /\ resp' = Resp("delete_device", user, 404, device_id)
            /\ UNCHANGED devices
       ELSE /\ devices' = {d \in devices : d.id # device_id}
            /\ resp' = Resp("delete_device", user, 204, device_id)
    /\ UNCHANGED <<nextId, now>>
    /\ UNCHANGED DeviceFrame

\* a login that looks the device up by fingerprint alone
LoginAnyUser(user, device_fingerprint) ==
    /\ LET ds == {d \in devices : d.device_fingerprint = device_fingerprint}
       IN IF ds = {}
          THEN /\ resp' = Resp("login", user, 200, NoId)
               /\ UNCHANGED devices
          ELSE \E d \in ds :
                  /\ devices' = (devices \ {d}) \cup {[d EXCEPT !.last_active = now]}
                  /\ resp' = Resp("login", user, 200, d.id)
    /\ UNCHANGED <<nextId, now>>
    /\ UNCHANGED DeviceFrame

\* the login serializer's validate for correct credentials: saving the
\* device registered under this user and fingerprint refreshes last_active
Login(user, device_fingerprint) ==
    /\ LET ds == {d \in devices : d.user = user /\ d.device_fingerprint = device_fingerprint}
       IN IF ds = {}
          THEN /\ resp' = Resp("login", user, 200, NoId)
               /\ UNCHANGED devices
          ELSE \E d \in ds :
                  /\ devices' = (devices \ {d}) \cup {[d EXCEPT !.last_active = now]}
                  /\ resp' = Resp("login", user, 200, d.id)
    /\ UNCHANGED <<nextId, now>>
    /\ UNCHANGED DeviceFrame

\* the inactivity test of DevicePrivateKeyView.get
KeyAccessStaleInclusive(device) ==
    device.last_active <= now - KeyAccessHours

KeyAccessStale(device) ==
    device.last_active < now - KeyAccessHours

\* DevicePrivateKeyView.get: 404 unless the device is the requester's, 403
\* for a stale non-primary device, else the body with the device's id and
\* its encrypted_private_key (resp.n is the id of the device whose key blob
\* the body carries, NoId when the body carries none)
DevicePrivateKeyGet(user, device_id) ==
    /\ LET ds == OwnDevices(user, device_id)
       IN IF ds = {}
          THEN resp' = Resp("device_key", user, 404, NoId)
          ELSE \E device \in ds :
                  IF ~device.is_primary /\ KeyAccessStale(device)
                  THEN resp' = Resp("device_key", user, 403, NoId)
                  ELSE resp' = Resp("device_key", user, 200, device.id)
    /\ UNCHANGED <<devices, nextId, now>>
    /\ UNCHANGED DeviceFrame

\* an hour passes
HourPasses ==
    /\ now < MaxHours
    /\ now' = now + 1
    /\ UNCHANGED <<devices, nextId, resp>>
    /\ UNCHANGED DeviceFrame

DeviceIdInputs == {PrimaryDeviceA, PrimaryDeviceB, FirstRegisteredDeviceId, UnknownDeviceId}
\* A is the user who registers a second device and logs in on devices
DeviceUsers == {"A"}

NextDevice ==
    \/ \E user \in DeviceUsers, fp \in Fingerprints : DeviceRegister(user, fp)
    \/ \E user \in DeviceUsers, fp \in Fingerprints : Login(user, fp)
    \/ \E user \in Users, device_id \in DeviceIdInputs : DevicePrivateKeyGet(user, device_id)
    \/ HourPasses

SpecDevice == InitDevice /\ [][NextDevice]_vars

\* ---- registration of devices by users with and without a device: C
\* signed up without one
NextRegister ==
    \/ \E user \in Users, fp \in Fingerprints : DeviceRegister(user, fp)
    \/ \E user \in Users, fp \in Fingerprints : Login(user, fp)
    \/ \E user \in Users, device_id \in DeviceIdInputs : DevicePrivateKeyGet(user, device_id)
    \/ \E user \in Users, device_id \in DeviceIdInputs : DeviceDelete(user, device_id)
    \/ Tick

SpecRegister == InitDevice /\ [][NextRegister]_vars

\* =========================================================================
\* WebSocket handshakes of the chat and the notification consumer.
\* =========================================================================
MaxConns == 2

\* config/constants.py
WEBSOCKET_ERROR_NO_TOKEN == 4001
WEBSOCKET_ERROR_USER_NOT_FOUND == 4002
WEBSOCKET_ERROR_INVALID_TOKEN == 4003
WEBSOCKET_ERROR_NOT_MEMBER == 4004

\* A query string is the sequence of its '&'-separated parameters, each
\* parameter the sequence of its '='-separated pieces: <<"token">> is the
\* parameter "token", <<"token", "tA">> is "token=tA" and
\* <<"token", "bad", "">> is "token=bad=".
Queries ==
    {<< <<"">> >>,
     << <<"token">> >>,
     << <<"token", "">> >>,
     << <<"token", "bad">> >>,
     << <<"token", "bad", "">> >>,
     << <<"token", "tZ">> >>,
     << <<"token", "tA">> >>,
     << <<"v", "1">>, <<"token", "tC">> >>}

\* the tokens AccessToken() accepts, with their user_id claim; every other
\* string raises TokenError
AccessTokens == [tA |-> "A", tC |-> "C", tZ |-> Ghost]

\* the parameters that pass `if '=' in param`
KeptParams(q) == SelectSeq(q, LAMBDA param : Len(param) >= 2)

\* dict() of a sequence raises ValueError unless every element has length 2
DictRaises(q) == \E i \in 1..Len(KeptParams(q)) : Len(KeptParams(q)[i]) # 2

\* query_params.get('token'); a later parameter overwrites an earlier one
QueryToken(q) ==
    LET kept == KeptParams(q)
        idx == {i \in 1..Len(kept) : kept[i][1] = "token"}
    IN IF idx = {} THEN Null ELSE kept[Max(idx)][2]

\* ChatConsumer.get_user / NotificationConsumer.get_user
GetUser(user_id) == IF user_id \in Users THEN user_id ELSE NoUser

\* a consumer instance before connect() ran
NewConn(kind, room_id) ==
    [kind |-> kind, state |-> "connecting", room_id |-> room_id, user |-> NoUser,
     has_user |-> FALSE, close_code |-> 0, groups |-> {}]

ClosedButJoined(conn, code) == [conn EXCEPT !.state = "open", !.close_code = code]

\* self.close(code=code) before accept()
Closed(conn, code) == [conn EXCEPT !.state = "closed", !.close_code = code]

\* the token checks shared by both connect() methods: the consumer after
\* them; state "connecting" means the checks passed
Authenticate(conn, q) ==
    IF DictRaises(q) THEN [conn EXCEPT !.state = "crashed"]
    ELSE IF ~Truthy(QueryToken(q)) THEN Closed(conn, 4001)
    ELSE IF QueryToken(q) \notin DOMAIN AccessTokens THEN Closed(conn, 4003)
    ELSE LET user == GetUser(AccessTokens[QueryToken(q)])
             c == [conn EXCEPT !.has_user = TRUE, !.user = user]
         IN IF user = NoUser THEN Closed(c, 4002) ELSE c

ConnFrame == <<rooms, members, messages, dinv, ginv, devices, nextId, now, reqs, started>>

\* ChatConsumer.connect
ChatConnect(room_id, q) ==
    /\ Len(conns) < MaxConns
    /\ LET a == Authenticate(NewConn("chat", room_id), q)
           is_member == RoomExists(room_id) /\ IsMember(room_id, a.user)
           conn == IF a.state # "connecting" THEN a
                   ELSE IF ~is_member THEN Closed(a, 4004)
                   ELSE [a EXCEPT !.state = "open", !.groups = {ChatGroup(room_id)}]
       IN /\ conns' = Append(conns, conn)
          /\ published' = IF conn.state = "open"
                          THEN <<Event(ChatGroup(room_id), "user_status",
                                       [user_id |-> conn.user, status |-> "online"])>>
                          ELSE <<>>
          /\ resp' = Resp("chat_connect", conn.user, conn.close_code, Len(conns) + 1)
    /\ UNCHANGED ConnFrame

\* NotificationConsumer.connect
NotificationConnect(q) ==
    /\ Len(conns) < MaxConns
    /\ LET a == Authenticate(NewConn("notifications", NoId), q)
           conn == IF a.state # "connecting" THEN a
                   ELSE [a EXCEPT !.state = "open", !.groups = {NotificationGroup(a.user)}]
       IN /\ conns' = Append(conns, conn)
          /\ published' = <<>>
          /\ resp' = Resp("notification_connect", conn.user, conn.close_code, Len(conns) + 1)
    /\ UNCHANGED ConnFrame

GroupDiscardNothing(groups, g) == groups

\* channel_layer.group_discard
GroupDiscard(groups, g) == groups \ {g}

\* ChatConsumer.disconnect, called once the socket is gone, also after a
\* close during the handshake: with self.user set it publishes "offline"
\* and leaves the room group; str(self.user.id) raises when self.user is None
ChatDisconnect(c) ==
    /\ c \in 1..Len(conns)
    /\ conns[c].kind = "chat" /\ conns[c].state \in {"open", "closed"}
    /\ IF ~conns[c].has_user
       THEN /\ conns' = [conns EXCEPT ![c].state = "disconnected"]
            /\ published' = <<>>
       ELSE IF conns[c].user = NoUser
       THEN /\ conns' = [conns EXCEPT ![c].state = "crashed"]
            /\ published' = <<>>
       ELSE /\ conns' = [conns EXCEPT ![c].state = "disconnected",
                                      ![c].groups = GroupDiscard(@, ChatGroup(conns[c].room_id))]
            /\ published' = <<Event(ChatGroup(conns[c].room_id), "user_status",
                                    [user_id |-> conns[c].user, status |-> "offline"])>>
    /\ resp' = Resp("chat_disconnect", conns[c].user, 0, c)
    /\ UNCHANGED ConnFrame

\* NotificationConsumer.disconnect: leaves the notification group if
\* connect() got as far as naming it
NotificationDisconnect(c) ==
    /\ c \in 1..Len(conns)
    /\ conns[c].kind = "notifications" /\ conns[c].state \in {"open", "closed"}
    /\ conns' = [conns EXCEPT ![c].state = "disconnected",
                              ![c].groups = IF @ = {} THEN {}
                                            ELSE GroupDiscard(@, NotificationGroup(conns[c].user))]
    /\ published' = <<>>
    /\ resp' = Resp("notification_disconnect", conns[c].user, 0, c)
    /\ UNCHANGED ConnFrame

InitConn ==
    /\ InitStore({"member"})
    /\ conns = <<>>

ConnIds == 1..MaxConns

NextConn ==
    \/ \E room_id \in RoomIds, q \in Queries : ChatConnect(room_id, q)
    \/ \E q \in Queries : NotificationConnect(q)
    \/ \E c \in ConnIds : ChatDisconnect(c)
    \/ \E c \in ConnIds : NotificationDisconnect(c)

SpecConn == InitConn /\ [][NextConn]_vars

\* ---- delivery of a published event to the consumers of its group
\* the connections (channel names) joined to group g when the connections
\* are cs
Subscribers(cs, g) == {c \in DOMAIN cs : g \in cs[c].groups}

ReceivesByUser(cs, c, ev) ==
    IF ev.type \in {"typing_indicator", "user_status"}
    THEN ev.msg.user_id # cs[c].user
    ELSE TRUE

\* the consumer's handler of the event type passes the event on to its
\* socket: typing_indicator drops the consumer's own channel, user_status
\* drops events of the consumer's own user, the others pass everything
Receives(cs, c, ev) ==
    IF ev.type = "typing_indicator" THEN ev.msg.sender_channel # c
    ELSE IF ev.type = "user_status" THEN ev.msg.user_id # cs[c].user
    ELSE TRUE

Delivered(cs, ev) == {c \in Subscribers(cs, ev.group) : Receives(cs, c, ev)}

\* ChatConsumer.handle_typing
WsTyping(c, is_typing) ==
    /\ c \in 1..Len(conns)
    /\ conns[c].kind = "chat" /\ conns[c].state = "open"
    /\ published' = <<Event(ChatGroup(conns[c].room_id), "typing_indicator",
                            [user_id |-> conns[c].user, is_typing |-> is_typing,
                             sender_channel |-> c])>>
    /\ resp' = Resp("ws_typing", conns[c].user, 0, c)
    /\ UNCHANGED conns
    /\ UNCHANGED ConnFrame

\* ---- live sessions in the rooms: A and C connect with their tokens, or
\* without one, type and disconnect
LiveQueries == {<< <<"token", "tA">> >>,
                << <<"v", "1">>, <<"token", "tC">> >>,
                << <<"token">> >>}

NextLive ==
    \/ \E room_id \in {DirectRoomId, GroupRoomId}, q \in LiveQueries : ChatConnect(room_id, q)
    \/ \E c \in ConnIds : ChatDisconnect(c)
    \/ \E c \in ConnIds, is_typing \in BOOLEAN : WsTyping(c, is_typing)

SpecLive == InitConn /\ [][NextLive]_vars

\* =========================================================================
\* Group rooms: creation with invitations, inviting, answering an
\* invitation, adding members directly.
\* =========================================================================
MaxGroupRooms == 1

\* accepted friendships (friends.Friend rows with status 'accepted')
Friends == {{"A", "B"}, {"A", "C"}}


Range(seq) == {seq[i] : i \in 1..Len(seq)}

GroupFrame == <<messages, dinv, devices, now, reqs, started, conns>>

\* GroupChatInvitation.save(): full_clean() runs clean() (group rooms only,
\* the invitee must not be a member) and validate_unique() for
\* unique_together (room, invitee), excluding the row itself
InvitationCleanOk(inv) ==
    /\ RoomType(inv.room) = "group"
    /\ ~IsMember(inv.room, inv.invitee)
    /\ ~\E i \in ginv : i.id # inv.id /\ i.room = inv.room /\ i.invitee = inv.invitee

GroupInvitation(id, room, inviter, invitee, status) ==
    [id |-> id, room |-> room, inviter |-> inviter, invitee |-> invitee, status |-> status]

\* GroupChatCreateView.post: the room, the creator as owner, and a pending
\* invitation for every other existing user of member_ids
GroupChatCreate(user, member_ids) ==
    /\ Cardinality(rooms) < MaxGroupRooms
    /\ LET invitees == SelectSeq(member_ids, LAMBDA u : u # user /\ u \in Users)
       IN /\ rooms' = rooms \cup {[id |-> nextId, room_type |-> "group", created_by |-> user]}
          /\ members' = members \cup
                {[room |-> nextId, user |-> user, role |-> "owner",
                  joined_at |-> nextId, last_read_at |-> NoTime]}
          /\ ginv' = ginv \cup
                {GroupInvitation(nextId + i, nextId, user, invitees[i], "pending")
                   : i \in 1..Len(invitees)}
          /\ nextId' = nextId + 1 + Len(invitees)
          /\ resp' = Resp("group_create", user, 201, nextId)
    /\ published' = <<>>
    /\ UNCHANGED GroupFrame

\* GroupChatInvitationView.post; the ValidationError that save() raises for a
\* second row of the same (room, invitee) is not caught: 500
GroupInvite(user, room_id, user_id) ==
    /\ published' = <<>>
    /\ LET status ==
             IF ~RoomExists(room_id) THEN 404
             ELSE IF RoomType(room_id) # "group" THEN 400
             ELSE IF ~IsMember(room_id, user)
                     \/ MemberOf(room_id, user).role \notin {"owner", "admin"} THEN 403
             ELSE IF user_id \notin Users THEN 404
             ELSE IF user_id = user THEN 400
             ELSE IF IsMember(room_id, user_id) THEN 400
             ELSE IF {user, user_id} \notin Friends THEN 400
             ELSE IF \E i \in ginv : i.room = room_id /\ i.invitee = user_id
                                     /\ i.status = "pending" THEN 400
             ELSE IF ~InvitationCleanOk(GroupInvitation(nextId, room_id, user, user_id, "pending"))
                  THEN 500
             ELSE 201
       IN IF status = 201
          THEN /\ ginv' = ginv \cup {GroupInvitation(nextId, room_id, user, user_id, "pending")}
               /\ nextId' = nextId + 1
               /\ resp' = Resp("group_invite", user, 201, nextId)
          ELSE /\ UNCHANGED <<ginv, nextId>>
               /\ resp' = Resp("group_invite", user, status, NoId)
    /\ UNCHANGED <<rooms, members>>
    /\ UNCHANGED GroupFrame

\* GroupChatInvitationResponseView.post: only the invitee's pending
\* invitation is found; accept saves the invitation and adds the membership
\* in one transaction, reject saves the invitation
GroupRespond(user, invitation_id, action) ==
    /\ published' = <<>>
    /\ LET found == FetchPending(ginv, invitation_id, user)
       IN IF found = {}
          THEN /\ resp' = Resp("group_respond", user, 404, invitation_id)
               /\ UNCHANGED <<ginv, members, nextId>>
          ELSE \E invitation \in found :
                  IF ~InvitationCleanOk(invitation)
                  THEN /\ resp' = Resp("group_respond", user, 500, invitation_id)
                       /\ UNCHANGED <<ginv, members, nextId>>
                  ELSE IF action = "accept"
                  THEN /\ ginv' = (ginv \ {invitation})
                                     \cup {[invitation EXCEPT !.status = "accepted"]}
                       /\ members' = members \cup
                             {[room |-> invitation.room, user |-> user, role |-> "member",
                               joined_at |-> nextId, last_read_at |-> NoTime]}
                       /\ nextId' = nextId + 1
                       /\ resp' = Resp("group_respond", user, 200, invitation_id)
                  ELSE /\ ginv' = (ginv \ {invitation})
                                     \cup {[invitation EXCEPT !.status = "rejected"]}
                       /\ resp' = Resp("group_respond", user, 200, invitation_id)
                       /\ UNCHANGED <<members, nextId>>
    /\ UNCHANGED rooms
    /\ UNCHANGED GroupFrame

\* ChatRoomMemberView.post: owner or admin adds every existing user of
\* user_ids who is not a member yet
MemberAdd(user, room_id, user_ids) ==
    /\ published' = <<>>
    /\ LET status ==
             IF ~RoomExists(room_id) THEN 404
             ELSE IF RoomType(room_id) = "direct" THEN 400
             ELSE IF ~IsMember(room_id, user)
                     \/ MemberOf(room_id, user).role \notin {"owner", "admin"} THEN 403
             ELSE IF user_ids = <<>> THEN 400
             ELSE 200
           added == {u \in Range(user_ids) \cap Users : ~IsMember(room_id, u)}
       IN IF status = 200
          THEN /\ members' = members \cup
                     {[room |-> room_id, user |-> u, role |-> "member",
                       joined_at |-> nextId, last_read_at |-> NoTime] : u \in added}
               /\ nextId' = nextId + Cardinality(added)
               /\ resp' = Resp("member_add", user, 200, Cardinality(added))
          ELSE /\ UNCHANGED <<members, nextId>>
               /\ resp' = Resp("member_add", user, status, 0)
    /\ UNCHANGED <<rooms, ginv>>
    /\ UNCHANGED GroupFrame

\* a member removal that does not turn direct rooms away
MemberRemoveAnyRoom(user, room_id, user_id) ==
    /\ published' = <<>>
    /\ IF ~RoomExists(room_id)
       THEN /\ resp' = Resp("member_remove", user, 404, 0)
            /\ UNCHANGED <<rooms, members>>
       ELSE IF user_id = user
       THEN IF ~IsMember(room_id, user)
            THEN /\ resp' = Resp("member_remove", user, 500, 0)
                 /\ UNCHANGED <<rooms, members>>
            ELSE LET room == RoomOf(room_id)
                     remaining_members == {m \in MembersOf(room_id) : m.user # user}
                 IN /\ members' = members \ {MemberOf(room_id, user)}
                    /\ rooms' = IF room.created_by = user /\ remaining_members # {}
                                THEN (rooms \ {room}) \cup
                                       {[room EXCEPT !.created_by =
                                                FirstMember(remaining_members).user]}
                                ELSE rooms
                    /\ resp' = Resp("member_remove", user, 200, 0)
       ELSE IF ~IsMember(room_id, user_id)
       THEN /\ resp' = Resp("member_remove", user, 404, 0)
            /\ UNCHANGED <<rooms, members>>
       ELSE IF ~IsMember(room_id, user)
               \/ MemberOf(room_id, user).role \notin {"owner", "admin"}
       THEN /\ resp' = Resp("member_remove", user, 403, 0)
            /\ UNCHANGED <<rooms, members>>
       ELSE IF MemberOf(room_id, user_id).role = "owner"
       THEN /\ resp' = Resp("member_remove", user, 400, 0)
            /\ UNCHANGED <<rooms, members>>
       ELSE /\ members' = members \ {MemberOf(room_id, user_id)}
            /\ resp' = Resp("member_remove", user, 200, 0)
            /\ UNCHANGED rooms
    /\ UNCHANGED <<ginv, nextId>>
    /\ UNCHANGED GroupFrame

\* ChatRoomMemberView.delete: removing oneself deletes the membership and
\* then hands room.created_by (not the role owner) to the first remaining
\* member; the get() of a caller who is no member raises DoesNotExist, which
\* nothing catches; removing someone else needs the role owner or admin and
\* a target who is not the owner
MemberRemove(user, room_id, user_id) ==
    /\ published' = <<>>
    /\ IF ~RoomExists(room_id)
       THEN /\ resp' = Resp("member_remove", user, 404, 0)
            /\ UNCHANGED <<rooms, members>>
       ELSE IF RoomType(room_id) = "direct"
       THEN /\ resp' = Resp("member_remove", user, 400, 0)
            /\ UNCHANGED <<rooms, members>>
       ELSE IF user_id = user
       THEN IF ~IsMember(room_id, user)
            THEN /\ resp' = Resp("member_remove", user, 500, 0)
                 /\ UNCHANGED <<rooms, members>>
            ELSE LET room == RoomOf(room_id)
                     remaining_members == {m \in MembersOf(room_id) : m.user # user}
                 IN /\ members' = members \ {MemberOf(room_id, user)}
                    /\ rooms' = IF room.created_by = user /\ remaining_members # {}
                                THEN (rooms \ {room}) \cup
                                       {[room EXCEPT !.created_by =
                                                FirstMember(remaining_members).user]}
                                ELSE rooms
                    /\ resp' = Resp("member_remove", user, 200, 0)
       ELSE IF ~IsMember(room_id, user_id)
       THEN /\ resp' = Resp("member_remove", user, 404, 0)
            /\ UNCHANGED <<rooms, members>>
       ELSE IF ~IsMember(room_id, user)
               \/ MemberOf(room_id, user).role \notin {"owner", "admin"}
       THEN /\ resp' = Resp("member_remove", user, 403, 0)
            /\ UNCHANGED <<rooms, members>>
       ELSE IF MemberOf(room_id, user_id).role = "owner"
       THEN /\ resp' = Resp("member_remove", user, 400, 0)
            /\ UNCHANGED <<rooms, members>>
       ELSE /\ members' = members \ {MemberOf(room_id, user_id)}
            /\ resp' = Resp("member_remove", user, 200, 0)
            /\ UNCHANGED rooms
    /\ UNCHANGED <<ginv, nextId>>
    /\ UNCHANGED GroupFrame

\* ids of the rooms and invitations a request can name
GroupIds == 1..4

NextGroup ==
    \/ \E user \in Users,
          member_ids \in {<<>>, <<"B">>, <<"B", "C">>, <<"A", "C">>, <<Ghost, "B">>} :
          GroupChatCreate(user, member_ids)
    \/ \E user \in Users, room_id \in GroupIds, user_id \in Users \cup {Ghost} :
          GroupInvite(user, room_id, user_id)
    \/ \E user \in Users, invitation_id \in GroupIds, action \in {"accept", "reject"} :
          GroupRespond(user, invitation_id, action)
    \/ \E user \in Users, room_id \in GroupIds, user_ids \in {<<>>, <<"B">>, <<"C">>, <<Ghost>>} :
          MemberAdd(user, room_id, user_ids)

SpecGroup == Init /\ [][NextGroup]_vars

\* ---- responding to invitations of both kinds: A opens a direct chat with
\* B (B never asks for one, so no create request reaches the auto-accept
\* step), A creates a group room inviting B, and every user answers every
\* invitation id
\* the direct-chat requests of this part are handled one at a time
RespondSlots == {1}

NextRespond ==
    \/ \E s \in RespondSlots : DCStart(s, "A", "B")
    \/ \E s \in RespondSlots : DCCheckRoom(s)
    \/ \E s \in RespondSlots : DCCheckInv(s)
    \/ \E s \in RespondSlots : DCCreateInv(s)
    \/ \E s \in RespondSlots, user \in Users, i \in GroupIds, action \in {"accept", "reject"} :
          DRFetch(s, user, i, action)
    \/ \E s \in RespondSlots : DRAct(s)
    \/ \E member_ids \in {<<"B">>} : GroupChatCreate("A", member_ids)
    \/ \E user \in Users, invitation_id \in GroupIds, action \in {"accept", "reject"} :
          GroupRespond(user, invitation_id, action)

SpecRespond == Init /\ [][NextRespond]_vars

\* ---- the owner of the group room over departures and arrivals: members
\* leave, remove themselves or one another, the owner or an admin invites
\* again and the invited accept
NextOwner ==
    \/ \E user \in Users : LeaveRoom(user, GroupRoomId)
    \/ \E user \in Users, user_id \in Users : MemberRemove(user, GroupRoomId, user_id)
    \/ \E user \in Users, user_id \in Users : GroupInvite(user, GroupRoomId, user_id)
    \/ \E user \in Users, invitation_id \in FirstMessageId..(FirstMessageId + 1),
          action \in {"accept", "reject"} :
          GroupRespond(user, invitation_id, action)

SpecOwner == InitLeave /\ [][NextOwner]_vars

\* ---- the members of direct rooms: A and B open direct chats with each
\* other and answer the invitations, leave, add C to and remove each other
\* from the rooms
DirectPair == {"A", "B"}
DirectIds == 1..3
\* two direct-chat requests can be in flight at once
DirectSlots == {1, 2}

NextDirect ==
    \/ \E s \in DirectSlots, user \in DirectPair, other \in DirectPair : DCStart(s, user, other)
    \/ \E s \in DirectSlots : DCCheckRoom(s)
    \/ \E s \in DirectSlots : DCCheckInv(s)
    \/ \E s \in DirectSlots : DCAccept(s)
    \/ \E s \in DirectSlots : DCCreateInv(s)
    \/ \E s \in DirectSlots, user \in DirectPair, i \in DirectIds, action \in {"accept", "reject"} :
          DRFetch(s, user, i, action)
    \/ \E s \in DirectSlots : DRAct(s)
    \/ \E user \in DirectPair, room_id \in DirectIds : LeaveRoom(user, room_id)
    \/ \E user \in DirectPair, room_id \in DirectIds, user_ids \in {<<"C">>} :
          MemberAdd(user, room_id, user_ids)
    \/ \E user \in DirectPair, room_id \in DirectIds, user_id \in DirectPair :
          MemberRemove(user, room_id, user_id)

SpecDirect == Init /\ [][NextDirect]_vars

\* ---- former members: B sends in the group room, members leave, and every
\* user tries the room's REST operations
FormerPayloads == {Payload("text", "hi", Null, Null, Null, NoId)}
FormerEdits == {EditPayload("yo", Absent, Absent, Absent)}

NextFormer ==
    \/ \E c \in {4}, p \in FormerPayloads : WsChatMessage(c, p)
    \/ \E user \in Users : LeaveRoom(user, GroupRoomId)
    \/ \E user \in Users, message_id \in MessageIds, e \in FormerEdits :
          RestEdit(user, GroupRoomId, message_id, e)
    \/ \E user \in Users, message_id \in MessageIds :
          RestDelete(user, GroupRoomId, message_id)
    \/ \E user \in Users, p \in FormerPayloads : RestSendMessage(user, GroupRoomId, p)
    \/ \E user \in Users, message_ids \in SUBSET MessageIds :
          RestMarkRead(user, GroupRoomId, message_ids)
    \/ \E user \in Users, user_id \in Users : GroupInvite(user, GroupRoomId, user_id)

SpecFormer == InitMsg /\ [][NextFormer]_vars

\* ------------------------------------------------------ message properties
\* what the envelope policy forbids for a room type
EnvelopeViolation(room_type, p) ==
    \/ room_type = "direct" /\ p.message_type = "text" /\ ~Truthy(p.encrypted_content)
    \/ room_type = "group" /\ (Truthy(p.encrypted_content)
                               \/ Truthy(p.encrypted_session_key)
                               \/ Truthy(p.self_encrypted_session_key))

\* C4: on both creation paths a direct-room text message without non-empty
\* encrypted_content and a group-room message carrying any encrypted field
\* fail validation, and a rejected creation stores no message and publishes
\* nothing on any topic.
C4_EnvelopeViolationsRejected ==
    [][/\ resp'.op = "ws_chat_message" =>
            \A c \in MsgConns, p \in Payloads :
               (WsChatMessage(c, p) /\ EnvelopeViolation(RoomType(conns[c].room_id), p))
                  => resp'.status = -1
       /\ resp'.op = "send_message" =>
            \A user \in Users, room_id \in RoomIds, p \in RestPayloads :
               (RestSendMessage(user, room_id, p) /\ IsMember(room_id, user)
                /\ EnvelopeViolation(RoomType(room_id), p))
                  => resp'.status = 400
       /\ (resp'.op \in {"ws_chat_message", "send_message"}
           /\ resp'.status \in {-1, 400, 403, 404})
               => (messages' = messages /\ published' = <<>>)]_vars

\* a group-room message with an encrypted field was rejected on the live
\* connection after another message had been stored
C4_Witness ==
    /\ resp.op = "ws_chat_message" /\ resp.status = -1
    /\ published = <<>>
    /\ \E m \in messages : m.room = GroupRoomId

\* C10: an edit by a non-sender returns 403, an edit of a non-text message by
\* its sender returns 400, a delete by a non-sender returns 403; each leaves
\* the stored messages unchanged and publishes nothing.
C10_EditDeleteRejections ==
    [][/\ resp'.op = "edit_message" =>
            \A m \in messages, user \in Users, e \in EditPayloads :
               (m.id = resp'.n
                /\ (m.sender # user \/ m.message_type # "text")
                /\ RestEdit(user, m.room, m.id, e)) =>
                  /\ resp'.status = IF m.sender # user THEN 403 ELSE 400
                  /\ messages' = messages
                  /\ published' = <<>>
       /\ resp'.op = "delete_message" =>
            \A m \in messages, user \in Users :
               (m.id = resp'.n /\ m.sender # user /\ RestDelete(user, m.room, m.id)) =>
                  /\ resp'.status = 403
                  /\ messages' = messages
                  /\ published' = <<>>]_vars

\* a non-sender's request on a stored message was answered 403
C10_Witness ==
    /\ resp.op \in {"edit_message", "delete_message"} /\ resp.status = 403
    /\ published = <<>>
    /\ \E m \in messages : m.id = resp.n

\* C8: a member without last_read_at has as unread count the number of the
\* room's messages of other senders; MarkRead leaves the count at 0; afterwards
\* the count is the number of messages of other senders created strictly
\* after last_read_at, growing by one with each such message.
C8_UnreadCount ==
    [][/\ \A m \in members :
            m.last_read_at = NoTime =>
               UnreadCount(m.room, m.user)
                  = Cardinality({x \in messages : x.room = m.room /\ x.sender # m.user})
       /\ (resp'.op = "mark_read" /\ resp'.status = 200) =>
            \A m \in members, message_ids \in ReadIdSets :
               RestMarkRead(m.user, m.room, message_ids)
                  => UnreadCount(m.room, m.user)' = 0
       /\ (resp'.op = "ws_chat_message" /\ resp'.status = 0) =>
            \A c \in MsgConns, p \in Payloads :
               WsChatMessage(c, p) =>
                  \A m \in MembersOf(conns[c].room_id) :
                     UnreadCount(m.room, m.user)' =
                        UnreadCount(m.room, m.user)
                           + (IF m.user # conns[c].user /\ now > m.last_read_at
                              THEN 1 ELSE 0)]_vars

\* a member who marked the room read has one unread message out of two
\* messages of the other member
C8_Witness ==
    \E m \in members :
        /\ m.last_read_at # NoTime
        /\ UnreadCount(m.room, m.user) = 1
        /\ Cardinality({x \in messages : x.room = m.room /\ x.sender # m.user}) = 2

\* C6: leave by either member of a direct room deletes the room with all its
\* messages and memberships; from then on fetching the room or its messages
\* returns 404 for every user.
C6_DirectLeaveDeletesRoom ==
    [][/\ \A user \in Users :
            (LeaveRoom(user, DirectRoomId) /\ RoomExists(DirectRoomId)
             /\ IsMember(DirectRoomId, user)) =>
               /\ \A r \in rooms' : r.id # DirectRoomId
               /\ \A m \in members' : m.room # DirectRoomId
               /\ \A m \in messages' : m.room # DirectRoomId
       /\ ~RoomExists(DirectRoomId)' =>
               \A u \in Users : /\ RoomDetailStatus(u, DirectRoomId)' = 404
                                /\ MessageListStatus(u, DirectRoomId)' = 404
       /\ ~RoomExists(DirectRoomId) => ~RoomExists(DirectRoomId)']_vars

\* the direct room is gone and so is the only message ever stored, while the
\* group room still has all its members
C6_Witness ==
    /\ resp.op = "leave" /\ resp.status = 200 /\ resp.n = DirectRoomId
    /\ ~RoomExists(DirectRoomId)
    /\ nextId > FirstMessageId
    /\ messages = {}
    /\ Cardinality(MembersOf(GroupRoomId)) = 3

\* C7: when the owner of a group room leaves, an admin becomes owner if another
\* member is admin, else any other member becomes owner, else the room is
\* deleted; when the room persists only the leaver's membership is removed and
\* only the new owner's role changes.
C7_OwnerLeaveTransfersOwnership ==
    [][\A user \in Users :
         (LeaveRoom(user, GroupRoomId) /\ RoomExists(GroupRoomId)
          /\ IsMember(GroupRoomId, user)
          /\ MemberOf(GroupRoomId, user).role = "owner") =>
            LET old == {m \in members : m.room = GroupRoomId /\ m.user # user}
                new == {m \in members' : m.room = GroupRoomId}
                admins == {m \in old : m.role = "admin"}
            IN IF old = {}
               THEN /\ \A r \in rooms' : r.id # GroupRoomId
                    /\ new = {}
               ELSE /\ \E r \in rooms' : r.id = GroupRoomId
                    /\ \E o \in old :
                          /\ admins # {} => o \in admins
                          /\ new = (old \ {o}) \cup {[o EXCEPT !.role = "owner"]}]_vars

\* the owner left a group room whose other members were an admin and a later
\* joined plain member: the admin is owner now
C7_Witness ==
    /\ resp.op = "leave" /\ resp.status = 200 /\ resp.n = GroupRoomId
    /\ \E b, c \in MembersOf(GroupRoomId) :
          /\ MembersOf(GroupRoomId) = {b, c}
          /\ b.role = "owner" /\ c.role = "member"
          /\ b.joined_at < c.joined_at

\* C5: a key request for a device of the requester is granted when the
\* device is primary, whatever the age of last_active, and otherwise granted
\* exactly when now - last_active is at most 24 hours and answered 403 beyond;
\* a device id that is unknown or belongs to another user is answered 404;
\* only a granted request returns a key blob, and only the requester's own.
C5_DeviceKeyPolicy ==
    [][resp'.op = "device_key" =>
         \A user \in Users, device_id \in DeviceIdInputs :
            DevicePrivateKeyGet(user, device_id) =>
               LET own == {d \in devices : d.id = device_id /\ d.user = user}
               IN IF own = {}
                  THEN resp'.status = 404 /\ resp'.n = NoId
                  ELSE \A d \in own :
                         IF d.is_primary \/ now - d.last_active <= 24
                         THEN resp'.status = 200 /\ resp'.n = d.id
                         ELSE resp'.status = 403 /\ resp'.n = NoId]_vars

\* the key of a non-primary device last active exactly 24 hours ago was
\* handed out
C5_Witness ==
    /\ resp.op = "device_key" /\ resp.status = 200
    /\ \E d \in devices : /\ d.id = resp.n
                          /\ ~d.is_primary
                          /\ now - d.last_active = 24

\* the token a client supplied: the value of the last parameter named
\* token, as the sequence of its '='-separated pieces
SuppliedToken(q) ==
    LET idx == {i \in 1..Len(q) : Len(q[i]) >= 2 /\ q[i][1] = "token"}
    IN IF idx = {} THEN <<>> ELSE Tail(q[Max(idx)])

\* the close code the failure classes call for, 0 when none applies
ExpectedCloseCode(kind, room_id, q) ==
    LET t == SuppliedToken(q)
    IN IF t = <<>> \/ t = <<"">> THEN WEBSOCKET_ERROR_NO_TOKEN
       ELSE IF Len(t) # 1 \/ t[1] \notin DOMAIN AccessTokens THEN WEBSOCKET_ERROR_INVALID_TOKEN
       ELSE IF AccessTokens[t[1]] \notin Users THEN WEBSOCKET_ERROR_USER_NOT_FOUND
       ELSE IF kind = "chat" /\ ~(RoomExists(room_id) /\ IsMember(room_id, AccessTokens[t[1]]))
            THEN WEBSOCKET_ERROR_NOT_MEMBER
       ELSE 0

ConnectOutcomeAsClaimed(kind, room_id, q) ==
    LET conn == conns'[Len(conns')]
        code == ExpectedCloseCode(kind, room_id, q)
    IN code # 0 => /\ conn.state = "closed"
                   /\ conn.close_code = code
                   /\ conn.groups = {}
                   /\ published' = <<>>

\* C9: a connection attempt without a token is closed with 4001, with a
\* token that fails to decode or validate with 4003, with a token of a user
\* that does not exist with 4002, and on the chat endpoint with a non-member
\* or a missing room with 4004; in each case it is never accepted and never
\* joined to a group.
C9_CloseCodes ==
    [][/\ resp'.op = "chat_connect" =>
            \A room_id \in RoomIds, q \in Queries :
               ChatConnect(room_id, q) => ConnectOutcomeAsClaimed("chat", room_id, q)
       /\ resp'.op = "notification_connect" =>
            \A q \in Queries :
               NotificationConnect(q) => ConnectOutcomeAsClaimed("notifications", NoId, q)]_vars

\* C11: on both creation paths a supplied reply_to id that resolves to no
\* message of the same room makes the creation fail; no message is stored,
\* in particular none with the reply reference dropped.
C11_UnresolvedReplyRejected ==
    [][/\ resp'.op = "ws_chat_message" =>
            \A c \in MsgConns, p \in Payloads :
               (/\ WsChatMessage(c, p)
                /\ p.reply_to # NoId
                /\ ~\E m \in messages : m.id = p.reply_to /\ m.room = conns[c].room_id)
                  => (resp'.status = -1 /\ messages' = messages)
       /\ resp'.op = "send_message" =>
            \A user \in Users, room_id \in RoomIds, p \in RestPayloads :
               (/\ RestSendMessage(user, room_id, p)
                /\ p.reply_to # NoId
                /\ ~\E m \in messages : m.id = p.reply_to /\ m.room = room_id)
                  => (resp'.status >= 400 /\ messages' = messages)]_vars

Presence(room_id, user, status) ==
    <<Event(ChatGroup(room_id), "user_status", [user_id |-> user, status |-> status])>>

\* C13: a chat connection publishes "online" on its room's group exactly
\* when it joins, and "offline" on disconnect only when a user had been
\* authenticated; a connection that never identified a user publishes no
\* presence event, neither on connect nor on disconnect.
C13_PresenceOnlyWhenAuthenticated ==
    [][/\ resp'.op = "chat_connect" =>
            \A room_id \in RoomIds, q \in Queries :
               ChatConnect(room_id, q) =>
                  published' = IF ExpectedCloseCode("chat", room_id, q) = 0
                               THEN Presence(room_id, AccessTokens[QueryToken(q)], "online")
                               ELSE <<>>
       /\ resp'.op = "chat_disconnect" =>
            LET old == conns[resp'.n]
            IN /\ old.state = "open" => published' = Presence(old.room_id, old.user, "offline")
               /\ published' # <<>> =>
                     /\ old.has_user /\ old.user \in Users
                     /\ published' = Presence(old.room_id, old.user, "offline")
               /\ (~old.has_user \/ old.user = NoUser) => published' = <<>>]_vars

\* an accepted connection was disconnected and "offline" was published
C13_Witness ==
    /\ resp.op = "chat_disconnect"
    /\ conns[resp.n].state = "disconnected" /\ conns[resp.n].close_code = 0
    /\ published = Presence(conns[resp.n].room_id, conns[resp.n].user, "offline")

\* C14: a typing event reaches every connection joined to the room's group
\* except the connection that sent it; another session of the same user
\* receives it.
C14_TypingFilteredByConnection ==
    [][resp'.op = "ws_typing" =>
         /\ Len(published') = 1
         /\ Delivered(conns, published'[1])
               = Subscribers(conns, ChatGroup(conns[resp'.n].room_id)) \ {resp'.n}]_vars

\* one of two sessions of the same user in a room typed and the other
\* session received the event
C14_Witness ==
    /\ resp.op = "ws_typing"
    /\ \E d \in DOMAIN conns :
          /\ d # resp.n
          /\ conns[d].user = conns[resp.n].user
          /\ d \in Delivered(conns, published[1])

\* C15: an online or offline event reaches every connection joined to the
\* room's group except the connection that caused it; another session of
\* the same user receives it.
C15_PresenceFilteredByConnection ==
    [][/\ (resp'.op = "chat_connect" /\ published' # <<>>) =>
            Delivered(conns', published'[1])
               = Subscribers(conns', published'[1].group) \ {resp'.n}
       /\ (resp'.op = "chat_disconnect" /\ published' # <<>>) =>
            Delivered(conns, published'[1])
               = Subscribers(conns, published'[1].group) \ {resp'.n}]_vars

\* C16: a chat or notification connection that was closed, at whatever
\* stage of its life, is joined to no group, so no later event reaches it.
C16_ClosedConnectionsUnsubscribed ==
    \A c \in DOMAIN conns :
       conns[c].state \in {"closed", "crashed", "disconnected"} =>
          /\ conns[c].groups = {}
          /\ \A g \in {ChatGroup(DirectRoomId), ChatGroup(GroupRoomId)}
                      \cup {NotificationGroup(u) : u \in Users} :
                c \notin Subscribers(conns, g)

\* a chat connection and a notification connection that had been accepted
\* are both disconnected
C16_Witness ==
    /\ Len(conns) = 2
    /\ \A c \in DOMAIN conns : /\ conns[c].state = "disconnected"
                               /\ conns[c].close_code = 0
                               /\ conns[c].user \in Users
    /\ conns[1].kind # conns[2].kind

\* C17: a registered device is flagged primary exactly when its user had no
\* device before: the first device of a user is primary, by sign-up or by
\* the registration endpoint, and no later one is.
C17_FirstDeviceIsPrimary ==
    [][(resp'.op = "register_device" /\ resp'.status = 201) =>
          \A d \in devices' \ devices :
             d.is_primary = (~\E x \in devices : x.user = d.user)]_vars

\* C18: an invite by an owner or admin of a group room to a friend who is
\* not a member is refused as a duplicate exactly while a pending invitation
\* of that invitee to that room exists; otherwise, also after a rejection,
\* it returns 201 and creates a new pending invitation.
C18_ReinviteAfterRejection ==
    [][resp'.op = "group_invite" =>
         \A user \in Users, room_id \in GroupIds, user_id \in Users :
            (/\ GroupInvite(user, room_id, user_id)
             /\ user_id # user
             /\ RoomType(room_id) = "group"
             /\ IsMember(room_id, user)
             /\ MemberOf(room_id, user).role \in {"owner", "admin"}
             /\ ~IsMember(room_id, user_id)
             /\ {user, user_id} \in Friends) =>
               IF \E i \in ginv : i.room = room_id /\ i.invitee = user_id
                                  /\ i.status = "pending"
               THEN resp'.status = 400 /\ ginv' = ginv
               ELSE /\ resp'.status = 201
                    /\ \E i \in ginv' \ ginv :
                          /\ ginv' = ginv \cup {i}
                          /\ i.room = room_id /\ i.invitee = user_id
                          /\ i.status = "pending"]_vars

\* C19: every member of a group room other than its creator has an accepted
\* invitation to that room.
C19_MembershipThroughAcceptance ==
    \A m \in members :
       RoomType(m.room) = "group" =>
          \/ m.user = RoomOf(m.room).created_by
          \/ \E i \in ginv : /\ i.room = m.room
                             /\ i.invitee = m.user
                             /\ i.status = "accepted"

\* the tables a rejected request must leave alone
Tables == <<rooms, members, messages, dinv, ginv>>

\* C20: every REST operation on an existing room (room detail, message
\* list, send, edit and delete of a stored message, mark read, leave,
\* invite) requested by a user
\* who is not a member of the room is answered 403 and changes no room,
\* membership, message or invitation, also when the user is a former member
\* acting on a message of their own.
C20_NonMembersRejected ==
    [][\A user \in Users :
          (RoomExists(GroupRoomId) /\ ~IsMember(GroupRoomId, user)) =>
             /\ RoomDetailStatus(user, GroupRoomId) = 403
             /\ MessageListStatus(user, GroupRoomId) = 403
             /\ \A m \in messages, e \in FormerEdits :
                   (m.room = GroupRoomId /\ RestEdit(user, GroupRoomId, m.id, e))
                      => (resp'.status = 403 /\ Tables' = Tables)
             /\ \A m \in messages :
                   (m.room = GroupRoomId /\ RestDelete(user, GroupRoomId, m.id))
                      => (resp'.status = 403 /\ Tables' = Tables)
             /\ \A p \in FormerPayloads :
                   RestSendMessage(user, GroupRoomId, p)
                      => (resp'.status = 403 /\ Tables' = Tables)
             /\ \A message_ids \in SUBSET MessageIds :
                   RestMarkRead(user, GroupRoomId, message_ids)
                      => (resp'.status = 403 /\ Tables' = Tables)
             /\ LeaveRoom(user, GroupRoomId)
                   => (resp'.status = 403 /\ Tables' = Tables)
             /\ \A user_id \in Users :
                   GroupInvite(user, GroupRoomId, user_id)
                      => (resp'.status = 403 /\ Tables' = Tables)]_vars

C22_Pagination ==
    [][/\ (resp'.op = "list" /\ resp'.status = 200) =>
            LET N == Cardinality({m \in messages : m.room = resp'.room})
                res == resp'.results
            IN /\ resp'.n = N
               /\ resp'.has_next <=> (resp'.page * resp'.page_size < N)
               /\ \A i, j \in 1..Len(res) :
                     i < j => res[i].created_at <= res[j].created_at
       /\ (/\ (resp.op = "list" /\ resp.status = 200) /\ (resp'.op = "list" /\ resp'.status = 200)
           /\ resp'.room = resp.room /\ resp'.page_size = resp.page_size
           /\ resp'.page = resp.page + 1) =>
            LET first == {resp.results[i] : i \in 1..Len(resp.results)}
                second == {resp'.results[i] : i \in 1..Len(resp'.results)}
                all == {m \in messages : m.room = resp.room}
            IN /\ \A x \in first, y \in second : y.created_at <= x.created_at
               /\ first \cap second = {}
               /\ (resp.page = 1 /\ Cardinality(all) <= 2 * resp.page_size)
                     => first \cup second = all]_vars
C24_InvitationsOnlyToFriends ==
    [][\A i \in ginv' :
         (~\E j \in ginv : j.id = i.id) =>
            /\ \E m \in members' : /\ m.room = i.room /\ m.user = i.inviter
                                     /\ m.role \in {"owner", "admin"}
            /\ {i.inviter, i.invitee} \in Friends
            /\ ~\E m \in members : m.room = i.room /\ m.user = i.invitee]_vars
C26_OnePendingPerPair ==
    \A i, j \in dinv :
        (/\ i.status = "pending" /\ j.status = "pending"
         /\ {i.inviter, i.invitee} = {j.inviter, j.invitee}) => i.id = j.id
\* C27: an attempt to accept a direct invitation either finds it pending and
\* marks it accepted together with exactly one new direct room whose members
\* are exactly the inviter and the invitee, or, the invitation being no longer
\* pending when the attempt runs, creates no room and no membership and
\* leaves the invitation's status as it is.
C27_AcceptIsAtomic ==
    [][\A s \in Slots :
         (/\ reqs[s].pc \in {"act", "accept"} /\ reqs'[s].pc = "done"
          /\ \/ DCAccept(s)
             \/ (reqs[s].action = "accept" /\ DRAct(s))) =>
            LET id == reqs[s].inv.id
                new == rooms' \ rooms
            IN IF \E i \in dinv : i.id = id /\ i.status = "pending"
               THEN /\ \E i \in dinv' : i.id = id /\ i.status = "accepted"
                    /\ Cardinality(new) = 1
                    /\ \A r \in new :
                          /\ r.room_type = "direct"
                          /\ {m.user : m \in {x \in members' : x.room = r.id}}
                                = {reqs[s].inv.inviter, reqs[s].inv.invitee}
                    /\ \A m \in members' \ members : \E r \in new : m.room = r.id
               ELSE /\ rooms' = rooms /\ members' = members
                    /\ \A i \in dinv : i.id = id => i \in dinv']_vars
\* C28: accepted, rejected and cancelled are terminal: once a direct or a
\* group invitation has left pending, its status never changes again.
C28_AnsweredIsTerminal ==
    [][/\ \A i \in dinv, j \in dinv' :
            (i.status # "pending" /\ j.id = i.id) => j.status = i.status
       /\ \A i \in ginv, j \in ginv' :
            (i.status # "pending" /\ j.id = i.id) => j.status = i.status]_vars
\* C29: every existing group room that has at least one member has a member
\* with the role owner, after any sequence of leave, self-removal, member
\* removal and invitation acceptance.
C29_GroupRoomHasOwner ==
    \A r \in rooms :
        (r.room_type = "group" /\ MembersOf(r.id) # {})
           => \E m \in MembersOf(r.id) : m.role = "owner"
\* C30: in every reachable state every existing direct room has exactly two
\* memberships, of two distinct users.
C30_DirectRoomHasTwoMembers ==
    \A r \in rooms :
        r.room_type = "direct"
           => /\ Cardinality(MembersOf(r.id)) = 2
              /\ Cardinality(MemberUsers(r.id)) = 2

\* a removal from an existing direct room was turned away
C30_Witness ==
    /\ resp.op = "member_remove" /\ resp.status = 400
    /\ \E r \in rooms : r.room_type = "direct" /\ MemberUsers(r.id) = DirectPair
\* C31: in every reachable state every existing group room has at least one
\* member: the departure of the last member deletes the room.
C31_GroupRoomHasMember ==
    \A r \in rooms : r.room_type = "group" => MembersOf(r.id) # {}
\* C32: every stored message of a direct room has empty plaintext content
\* and, when its type is text, non-empty encrypted_content; every stored
\* message of a group room has none of encrypted_content,
\* encrypted_session_key and self_encrypted_session_key and has non-empty
\* content.
C32_StoredEnvelopeShape ==
    \A m \in messages :
        /\ RoomType(m.room) = "direct" =>
              /\ ~Truthy(m.content)
              /\ m.message_type = "text" => Truthy(m.encrypted_content)
        /\ RoomType(m.room) = "group" =>
              /\ ~Truthy(m.encrypted_content)
              /\ ~Truthy(m.encrypted_session_key)
              /\ ~Truthy(m.self_encrypted_session_key)
              /\ Truthy(m.content)

\* C33: a direct room accepts an image or file message without
\* encrypted_content on both creation paths, and a group room rejects an image
\* or file message carrying any encrypted field on both creation paths
C33_AttachmentRules ==
    [][\A p \in Payloads :
          (/\ resp'.op \in {"send_message", "ws_chat_message"}
           /\ p.message_type \in {"image", "file"})
          => /\ \A user \in Users, room_id \in RoomIds :
                   (/\ RestSendMessage(user, room_id, p)
                    /\ RoomExists(room_id) /\ IsMember(room_id, user))
                   => /\ (RoomType(room_id) = "direct"
                           /\ ~Truthy(p.encrypted_content))
                          => resp'.status = 201
                      /\ (RoomType(room_id) = "group"
                           /\ (\/ Truthy(p.encrypted_content)
                               \/ Truthy(p.encrypted_session_key)
                               \/ Truthy(p.self_encrypted_session_key)))
                          => resp'.status = 400 /\ messages' = messages
             /\ \A c \in MsgConns :
                   WsChatMessage(c, p)
                   => /\ (RoomType(conns[c].room_id) = "direct"
                           /\ ~Truthy(p.encrypted_content))
                          => resp'.status = 0
                      /\ (RoomType(conns[c].room_id) = "group"
                           /\ (\/ Truthy(p.encrypted_content)
                               \/ Truthy(p.encrypted_session_key)
                               \/ Truthy(p.self_encrypted_session_key)))
                          => resp'.status = -1 /\ messages' = messages]_vars


\* C34: an edit obeys the room-type rules of creation: in a group room a
\* payload with any encrypted field or without content is rejected, in a
\* direct room a payload without encrypted_content is rejected; a rejected
\* edit changes no message and publishes nothing
C34_EditFollowsRoomRules ==
    [][\A user \in Users, room_id \in RoomIds, message_id \in MessageIds,
         e \in EditPayloads :
          (/\ resp'.op = "edit_message"
           /\ RestEdit(user, room_id, message_id, e)
           /\ \E m \in messages :
                 /\ m.id = message_id /\ m.room = room_id
                 /\ m.sender = user /\ m.message_type = "text"
           /\ \/ /\ RoomType(room_id) = "group"
                 /\ \/ Truthy(Get(e.encrypted_content))
                    \/ Truthy(Get(e.encrypted_session_key))
                    \/ Truthy(Get(e.self_encrypted_session_key))
                    \/ ~Truthy(Get(e.content))
              \/ /\ RoomType(room_id) = "direct"
                 /\ ~Truthy(Get(e.encrypted_content)))
          => /\ resp'.status = 400
             /\ messages' = messages
             /\ published' = <<>>]_vars


\* C35: the preview carried by a new-message notification is the fixed
\* placeholder for a text message of a direct room, the literal content for a
\* text message of a group room, and a fixed icon for an image or a file
C35_NotificationPreview ==
    \A i \in 1..Len(published) :
        published[i].type = "notification" =>
            \A m \in messages :
                m.id = published[i].msg =>
                    IF m.message_type = "image"
                    THEN published[i].content = "[photo]"
                    ELSE IF m.message_type = "file"
                    THEN published[i].content = "[file]"
                    ELSE IF RoomType(m.room) = "direct"
                    THEN published[i].content = "[new message]"
                    ELSE Truthy(m.content) => published[i].content = m.content


\* C36: whatever devices were registered and deleted, every user who has a
\* device has exactly one device flagged primary
C36_ExactlyOnePrimary ==
    \A u \in Users :
        (\E d \in devices : d.user = u)
        => Cardinality({d \in devices : d.user = u /\ d.is_primary}) = 1


\* C37: every message is stored for a sender who is a member of the room
\* when it is created; a chat_message on a connection opened by a member who
\* has since left or been removed is rejected and stores nothing
C37_SenderIsMemberAtCreation ==
    [][\A m \in messages' \ messages : IsMember(m.room, m.sender)]_vars


\* C38: an event published on a room topic is delivered only to connections
\* of users who are members of the room when it is published; the open
\* connections of a user who left or was removed receive nothing more
C38_DeliveredOnlyToMembers ==
    [][\A i \in 1..Len(published') :
          published'[i].group.kind = "chat" =>
             \A c \in Delivered(conns, published'[i]) :
                IsMember(published'[i].group.room, conns[c].user)]_vars


\* C39: "offline" is published on a room's topic only by a connection that
\* had joined the room and published "online"; a connection closed with
\* 4004 publishes no presence event when it disconnects
C39_OfflineOnlyAfterOnline ==
    [][resp'.op = "chat_disconnect" =>
         LET old == conns[resp'.n]
         IN /\ old.close_code = WEBSOCKET_ERROR_NOT_MEMBER => published' = <<>>
            /\ published' # <<>> =>
                  /\ old.state = "open"
                  /\ ChatGroup(old.room_id) \in old.groups]_vars


\* C40: the invitee of a pending group invitation can always resolve it:
\* in every reachable state, also after the invitee was added to the room
\* through the member-add endpoint, the invitee's accept or reject succeeds
\* and leaves the invitation accepted or rejected
C40_PendingInvitationResolvable ==
    [][resp'.op = "group_respond" =>
         \A user \in Users, invitation_id \in GroupIds, action \in {"accept", "reject"} :
            (/\ GroupRespond(user, invitation_id, action)
             /\ \E i \in ginv : /\ i.id = invitation_id /\ i.invitee = user
                                /\ i.status = "pending")
            => /\ resp'.status = 200
               /\ \E i \in ginv' :
                     /\ i.id = invitation_id
                     /\ i.status = IF action = "accept" THEN "accepted"
                                                        ELSE "rejected"]_vars

====
